---- MODULE Spec2Model ----
(***************************************************************************)
(* Model of the composability scoring engine of gce                        *)
(* (gce.core.cc_surface): compute_cc, classify_cc, the RunBundle and       *)
(* Verdict models and compute_verdict of the fallback backend.             *)
(*                                                                         *)
(* Python floats are modelled as tagged values: a finite value is an exact *)
(* rational n/d in lowest terms with d > 0, the non-finite values are NaN, *)
(* +inf and -inf.  Comparisons and division follow IEEE-754 as Python      *)
(* exposes them (every comparison with NaN is false, x / 0 raises          *)
(* ZeroDivisionError).  Rounding and the sign of zero are not modelled.    *)
(***************************************************************************)
EXTENDS Integers, Sequences, FiniteSets, TLC

VARIABLES pc, call, ret, bundle, prev, thr, locals, hist, be, fs

vars == <<pc, call, ret, bundle, prev, thr, locals, hist, be, fs>>
\* the state of the one-shot calls and of the concurrent calls
callVars == <<pc, call, ret, bundle, prev>>
concVars == <<thr, locals, hist>>

(***************************************************************************)
(* Bounds of the model.                                                    *)
(***************************************************************************)
\* J values handed to the engine are the integers -MaxJ .. MaxJ
MaxJ == 2
\* cc values handed to classify_cc directly are n/20 for |n| <= MaxCcNum
MaxCcNum == 30

(***************************************************************************)
(* Float values.                                                           *)
(***************************************************************************)
Abs(i) == IF i < 0 THEN -i ELSE i

RECURSIVE Gcd(_, _)
Gcd(a, b) == IF b = 0 THEN a ELSE Gcd(b, a % b)

\* the rational n/d (d # 0) in lowest terms with a positive denominator
Fin(n, d) ==
    LET g == Gcd(Abs(n), Abs(d))
        s == IF d < 0 THEN -1 ELSE 1
    IN  [k |-> "fin", n |-> (s * n) \div g, d |-> (s * d) \div g]

NaN  == [k |-> "nan",  n |-> 0, d |-> 1]
PInf == [k |-> "inf",  n |-> 1, d |-> 1]
NInf == [k |-> "ninf", n |-> -1, d |-> 1]
\* the value a raising division leaves behind (ZeroDivisionError)
ZeroDiv == [k |-> "ZeroDivisionError", n |-> 0, d |-> 1]
\* Python's None, where a float is optional
None == [k |-> "None", n |-> 0, d |-> 1]

Zero == Fin(0, 1)
One  == Fin(1, 1)

\* math.isfinite
isfinite(v) == v.k = "fin"

\* sign of a float value that is not NaN: -1, 0 or 1
Sign(v) ==
    CASE v.k = "inf"  -> 1
      [] v.k = "ninf" -> -1
      [] OTHER        -> IF v.n > 0 THEN 1 ELSE IF v.n < 0 THEN -1 ELSE 0

\* a < b on floats
FLt(a, b) ==
    CASE a.k = "nan" \/ b.k = "nan"   -> FALSE
      [] a.k = "fin" /\ b.k = "fin"   -> a.n * b.d < b.n * a.d
      [] a.k = "ninf"                 -> b.k # "ninf"
      [] b.k = "inf"                  -> a.k # "inf"
      [] OTHER                        -> FALSE

\* a == b on floats
FEq(a, b) == a.k # "nan" /\ b.k # "nan" /\ a = b

\* a <= b, a > b, a >= b on floats
FLe(a, b) == FLt(a, b) \/ FEq(a, b)
FGt(a, b) == FLt(b, a)
FGe(a, b) == FLe(b, a)

\* a + b and a - b for finite a, b
FAdd(a, b) == Fin(a.n * b.d + b.n * a.d, a.d * b.d)
FSub(a, b) == Fin(a.n * b.d - b.n * a.d, a.d * b.d)

\* a / b on floats
FDiv(a, b) ==
    CASE a.k = "nan" \/ b.k = "nan"     -> NaN
      [] b.k = "fin" /\ b.n = 0         -> ZeroDiv
      [] a.k = "fin" /\ b.k = "fin"     -> Fin(a.n * b.d, a.d * b.n)
      [] a.k = "fin"                    -> Zero
      [] b.k = "fin"                    -> IF Sign(a) * Sign(b) > 0 THEN PInf ELSE NInf
      [] OTHER                          -> NaN

\* a Python or NumPy value handed to or returned by the metrics: its type,
\* its shape (<<>> for a scalar or 0-d array, <<n>> for one axis), its items
NoArray == [kind |-> "none", shape |-> <<>>, data |-> <<>>]

(***************************************************************************)
(* gce.core.cc_surface.composition                                         *)
(***************************************************************************)
\* INDEPENDENT_TOL: float = 0.05
INDEPENDENT_TOL == Fin(1, 20)

\* dict.values() of a mapping kept as a sequence of [name, value] entries
\* in insertion order
values(J_baselines) == [i \in 1..Len(J_baselines) |-> J_baselines[i].value]

\* min() and max() of a non-empty list of floats without NaN
py_min(vals) ==
    CHOOSE v \in {vals[i] : i \in 1..Len(vals)} :
        \A j \in 1..Len(vals) : FLe(v, vals[j])
py_max(vals) ==
    CHOOSE v \in {vals[i] : i \in 1..Len(vals)} :
        \A j \in 1..Len(vals) : FGe(v, vals[j])

\* a variant that falls back to 0.0 when no finite baseline is left
best_singleton_value_dflt0(J_baselines, objective) ==
    LET finite_vals == SelectSeq(values(J_baselines), isfinite)
    IN  IF finite_vals = <<>> THEN Zero
        ELSE IF objective = "maximize" THEN py_max(finite_vals)
        ELSE py_min(finite_vals)

\* a variant that takes the worst singleton instead of the best
best_singleton_value_swapped(J_baselines, objective) ==
    LET finite_vals == SelectSeq(values(J_baselines), isfinite)
    IN  IF J_baselines = <<>> \/ finite_vals = <<>> THEN None
        ELSE IF objective = "maximize" THEN py_min(finite_vals)
        ELSE py_max(finite_vals)

\* _best_singleton_value
_best_singleton_value(J_baselines, objective) ==
    IF J_baselines = <<>> THEN None
    ELSE LET finite_vals == SelectSeq(values(J_baselines), isfinite)
         IN  IF finite_vals = <<>> THEN None
             ELSE IF objective = "maximize" THEN py_max(finite_vals)
             ELSE py_min(finite_vals)

\* what a branch of compute_cc hands back: the value returned and the
\* denominator of the division it evaluated (None when it evaluated none)
Ret(v) == [value |-> v, divisor |-> None]
Quot(a, b) == [value |-> FDiv(a, b), divisor |-> b]

\* a variant of the minimize branch without the J_comp == 0 tie
cc_minimize_notie(J_best, J_c) ==
    IF FEq(J_best, Zero) THEN Ret(PInf) ELSE Quot(J_c, J_best)

\* compute_cc, the objective == "minimize" branch
cc_minimize(J_best, J_c) ==
    IF FEq(J_best, Zero)
    THEN IF FEq(J_c, Zero) THEN Ret(One) ELSE Ret(PInf)
    ELSE Quot(J_c, J_best)

\* a variant of the maximize branch that guards J_comp < 0 only
cc_maximize_strict(J_best, J_c) ==
    IF FLt(J_c, Zero)
    THEN IF FLe(J_best, Zero) THEN Ret(One) ELSE Ret(PInf)
    ELSE Quot(J_best, J_c)

\* compute_cc, the maximize branch
cc_maximize(J_best, J_c) ==
    IF FLe(J_c, Zero)
    THEN IF FLe(J_best, Zero) THEN Ret(One) ELSE Ret(PInf)
    ELSE Quot(J_best, J_c)

\* compute_cc, with the denominator it divided by
compute_cc_eval(J_baselines, J_comp, objective) ==
    LET J_best == _best_singleton_value(J_baselines, objective)
        J_c    == J_comp
    IN  IF J_best = None THEN Ret(NaN)
        ELSE IF objective = "minimize" THEN cc_minimize(J_best, J_c)
        ELSE cc_maximize(J_best, J_c)

\* compute_cc
compute_cc(J_baselines, J_comp, objective) ==
    compute_cc_eval(J_baselines, J_comp, objective).value

\* a variant whose band excludes its two boundary values
classify_cc_openband(cc, tol) ==
    IF ~isfinite(cc) THEN "Independent"
    ELSE IF FLe(cc, FSub(One, tol)) THEN "Constructive"
    ELSE IF FGe(cc, FAdd(One, tol)) THEN "Destructive"
    ELSE "Independent"

\* a variant whose band is twice as wide
classify_cc_wideband(cc, tol) ==
    IF ~isfinite(cc) THEN "Independent"
    ELSE IF FLt(cc, FSub(One, FAdd(tol, tol))) THEN "Constructive"
    ELSE IF FGt(cc, FAdd(One, FAdd(tol, tol))) THEN "Destructive"
    ELSE "Independent"

\* a variant with the two comparisons exchanged
classify_cc_flipped(cc, tol) ==
    IF ~isfinite(cc) THEN "Independent"
    ELSE IF FGt(cc, FAdd(One, tol)) THEN "Constructive"
    ELSE IF FLt(cc, FSub(One, tol)) THEN "Destructive"
    ELSE "Independent"

\* classify_cc
classify_cc(cc, tol) ==
    IF ~isfinite(cc) THEN "Independent"
    ELSE IF FLt(cc, FSub(One, tol)) THEN "Constructive"
    ELSE IF FGt(cc, FAdd(One, tol)) THEN "Destructive"
    ELSE "Independent"

(***************************************************************************)
(* Strings.  A piece of text is a sequence of fragments: literal text, an  *)
(* interpolated string or integer, or a float under a format               *)
(* specification.  Literal text is written in ASCII: the letter theta of  *)
(* the source is spelled out and its dash is a hyphen.                     *)
(***************************************************************************)
Lit(s)  == [t |-> "lit", s |-> s, v |-> Zero]
Str(s)  == [t |-> "str", s |-> s, v |-> Zero]
Int0(i) == [t |-> "int", s |-> "", v |-> Fin(i, 1)]
F2(v)   == [t |-> ".2f", s |-> "", v |-> v]
G3(v)   == [t |-> ".3g", s |-> "", v |-> v]

\* str.strip() on the strings of the model
py_strip(s) ==
    CASE s = " blend " -> "blend"
      [] s = " "       -> ""
      [] s = "MAXIMIZE " -> "MAXIMIZE"
      [] OTHER         -> s

\* str.lower() on the strings of the model
py_lower(s) ==
    CASE s = "MAXIMIZE" -> "maximize"
      [] s = "NAN"      -> "nan"
      [] s = "Minimize" -> "minimize"
      [] OTHER          -> s

\* len() of a string of the model
py_len(s) ==
    CASE s = ""        -> 0
      [] s = " "       -> 1
      [] s = "blend"   -> 5
      [] s = " blend " -> 7

\* ', '.join(items)
RECURSIVE join(_)
join(items) ==
    IF items = <<>> THEN <<>>
    ELSE IF Len(items) = 1 THEN <<Str(items[1])>>
    ELSE <<Str(items[1]), Lit(", ")>> \o join(Tail(items))

(***************************************************************************)
(* gce.core.cc_surface.validators                                          *)
(***************************************************************************)
NoBundle ==
    [theta |-> NaN, patterns |-> <<>>, rule |-> "", J_baselines |-> <<>>,
     J_composed |-> NaN, objective |-> ""]

\* RunBundle._patterns_ok and Verdict._string_list on lists of strings
_patterns_ok(v) ==
    LET stripped == [i \in 1..Len(v) |-> py_strip(v[i])]
        nonblank(x) == x # ""
    IN  SelectSeq(stripped, nonblank)

\* a variant that lets a non-finite J_composed through
RunBundle_errors_lax(raw) ==
    (IF ~isfinite(raw.theta) THEN {"theta"} ELSE {})
    \cup (IF py_len(raw.rule) < 1 \/ py_strip(raw.rule) = "" THEN {"rule"} ELSE {})
    \cup (IF \E i \in 1..Len(raw.J_baselines) : ~isfinite(raw.J_baselines[i].value)
          THEN {"J_baselines"} ELSE {})
    \cup (IF raw.objective \notin {"minimize", "maximize"}
             \/ py_lower(py_strip(raw.objective)) \notin {"minimize", "maximize"}
          THEN {"objective"} ELSE {})

\* the fields of RunBundle that validation rejects, in field order; the
\* type and constraint checks of a field come before its validator
RunBundle_errors(raw) ==
    (IF ~isfinite(raw.theta) THEN {"theta"} ELSE {})
    \cup (IF py_len(raw.rule) < 1 \/ py_strip(raw.rule) = "" THEN {"rule"} ELSE {})
    \cup (IF \E i \in 1..Len(raw.J_baselines) : ~isfinite(raw.J_baselines[i].value)
          THEN {"J_baselines"} ELSE {})
    \cup (IF ~isfinite(raw.J_composed) THEN {"J_composed"} ELSE {})
    \cup (IF raw.objective \notin {"minimize", "maximize"}
             \/ py_lower(py_strip(raw.objective)) \notin {"minimize", "maximize"}
          THEN {"objective"} ELSE {})

\* RunBundle(**raw) when validation passes
RunBundle(raw) ==
    [theta       |-> raw.theta,
     patterns    |-> _patterns_ok(raw.patterns),
     rule        |-> py_strip(raw.rule),
     J_baselines |-> raw.J_baselines,
     J_composed  |-> raw.J_composed,
     objective   |-> py_lower(py_strip(raw.objective))]

NoVerdict ==
    [CC |-> NaN, label |-> "", recommendation |-> <<>>, next_tests |-> <<>>,
     checklist |-> <<>>]

\* the CC field of Verdict: the ge=0.0 constraint, then _cc_ok
Verdict_cc_rejected(CC) ==
    \/ ~FGe(CC, Zero)
    \/ FLt(CC, Zero) \/ ~isfinite(CC)

\* Verdict._string_list on lists of texts
_string_list(v) ==
    LET nonblank(x) == x # <<>>
    IN  SelectSeq(v, nonblank)

\* Verdict(CC=..., label=..., ...) when validation passes
Verdict(CC, label, recommendation, next_tests, checklist) ==
    [CC |-> CC, label |-> label, recommendation |-> recommendation,
     next_tests |-> _string_list(next_tests),
     checklist |-> _string_list(checklist)]

(***************************************************************************)
(* gce.core.cc_surface.recommend                                           *)
(***************************************************************************)
\* a variant that keeps the last extremal item
best_baseline_last(b) ==
    IF b.J_baselines = <<>> THEN [name |-> "<none>", value |-> NaN]
    ELSE LET n == Len(b.J_baselines)
             v(i) == b.J_baselines[i].value
             better(x, y) == IF b.objective = "maximize" THEN FGt(x, y) ELSE FLt(x, y)
             i == CHOOSE i \in 1..n :
                     /\ \A j \in 1..n : ~better(v(j), v(i))
                     /\ \A j \in (i + 1)..n : better(v(i), v(j))
         IN  b.J_baselines[i]

\* _best_baseline: min()/max() over the items by value keep the first
\* extremal item
_best_baseline(b) ==
    IF b.J_baselines = <<>> THEN [name |-> "<none>", value |-> NaN]
    ELSE LET n == Len(b.J_baselines)
             v(i) == b.J_baselines[i].value
             better(x, y) == IF b.objective = "maximize" THEN FGt(x, y) ELSE FLt(x, y)
             i == CHOOSE i \in 1..n :
                     /\ \A j \in 1..n : ~better(v(j), v(i))
                     /\ \A j \in 1..(i - 1) : better(v(i), v(j))
         IN  b.J_baselines[i]

\* a variant with the phrases of two labels exchanged
tone_for_label_swapped(label) ==
    CASE label = "Constructive" -> "Lean into the synergy."
      [] label = "Independent"  -> "Dial back the composition until diagnostics improve."
      [] label = "Destructive"  -> "Hold the line - the blend is neutral."

\* _tone_for_label
_tone_for_label(label) ==
    CASE label = "Constructive" -> "Lean into the synergy."
      [] label = "Independent"  -> "Hold the line - the blend is neutral."
      [] label = "Destructive"  -> "Dial back the composition until diagnostics improve."

\* a variant that appends the patterns only when baselines are present
make_recommendation_tied(b, CC, label) ==
    LET tone == _tone_for_label(label)
        has_baselines == b.J_baselines # <<>>
        best == _best_baseline(b)
        head == <<Lit(tone), Lit(" Rule '"), Str(b.rule), Lit("' at theta="),
                  F2(b.theta), Lit(" delivers "), G3(b.J_composed)>>
        body == IF has_baselines
                THEN <<Lit(" vs singleton '"), Str(best.name), Lit("'="),
                       G3(best.value), Lit(" (CC="), F2(CC), Lit(", objective="),
                       Str(b.objective), Lit(").")>>
                ELSE <<Lit(" with no singleton baselines; treat CC="), F2(CC),
                       Lit(" as relative to a neutral reference (objective="),
                       Str(b.objective), Lit(").")>>
        tail == IF has_baselines /\ b.patterns # <<>>
                THEN <<Lit(" Patterns in play: ")>> \o join(b.patterns) \o <<Lit(".")>>
                ELSE <<>>
    IN  head \o body \o tail

\* make_recommendation
make_recommendation(b, CC, label) ==
    LET tone == _tone_for_label(label)
        has_baselines == b.J_baselines # <<>>
        best == _best_baseline(b)
        head == <<Lit(tone), Lit(" Rule '"), Str(b.rule), Lit("' at theta="),
                  F2(b.theta), Lit(" delivers "), G3(b.J_composed)>>
        body == IF has_baselines
                THEN <<Lit(" vs singleton '"), Str(best.name), Lit("'="),
                       G3(best.value), Lit(" (CC="), F2(CC), Lit(", objective="),
                       Str(b.objective), Lit(").")>>
                ELSE <<Lit(" with no singleton baselines; treat CC="), F2(CC),
                       Lit(" as relative to a neutral reference (objective="),
                       Str(b.objective), Lit(").")>>
        tail == IF b.patterns # <<>>
                THEN <<Lit(" Patterns in play: ")>> \o join(b.patterns) \o <<Lit(".")>>
                ELSE <<>>
    IN  head \o body \o tail

\* a variant that puts the fallback of a Destructive verdict last
make_next_tests_reordered(b, CC, label) ==
    LET has_baselines == b.J_baselines # <<>>
        best == _best_baseline(b)
    IN  IF label = "Destructive" THEN
          << <<Lit("Probe lower theta values than "), F2(b.theta),
               Lit(" to find a safer operating point.")>>,
             <<Lit("Audit the composed pipeline for unexpected interactions, data leakage, or misconfigured guards.")>>,
             IF has_baselines
             THEN <<Lit("Re-run singleton '"), Str(best.name), Lit("' ("), G3(best.value),
                    Lit(") as the fallback while disabling rule '"), Str(b.rule), Lit("'.")>>
             ELSE <<Lit("Define and measure a reference singleton baseline to serve as a safe fallback.")>> >>
        ELSE
          << <<Lit("Perform a finer theta sweep around "), F2(b.theta),
               Lit(" to confirm neutral behavior.")>>,
             IF has_baselines
             THEN <<Lit("Validate measurements for singleton '"), Str(best.name), Lit("' ("),
                    G3(best.value), Lit(") to ensure the comparison is trustworthy.")>>
             ELSE <<Lit("Measure at least one singleton baseline to anchor the neutrality judgment.")>>,
             <<Lit("Try orthogonal pattern combinations or alternative rules to search for stronger signals.")>> >>

\* make_next_tests
make_next_tests(b, CC, label) ==
    LET has_baselines == b.J_baselines # <<>>
        best == _best_baseline(b)
        pat_str == join(b.patterns)
    IN  IF label = "Constructive" THEN
          << <<Lit("Expand the theta sweep around "), F2(b.theta), Lit(" for rule '"),
               Str(b.rule), Lit("' to map the constructive window.")>>,
             IF b.patterns # <<>>
             THEN <<Lit("Run leave-one-pattern-out ablations for ")>> \o pat_str
                  \o <<Lit(" to verify their individual lifts.")>>
             ELSE <<Lit("Introduce diagnostic ablations for each component before locking the policy.")>>,
             IF has_baselines
             THEN <<Lit("Re-evaluate singleton '"), Str(best.name), Lit("' to confirm the "),
                    Str(b.objective), Lit(" reference ("), G3(best.value), Lit(").")>>
             ELSE <<Lit("Establish at least one singleton baseline on the same dataset to quantify the lift.")>> >>
        ELSE IF label = "Destructive" THEN
          << IF has_baselines
             THEN <<Lit("Re-run singleton '"), Str(best.name), Lit("' ("), G3(best.value),
                    Lit(") as the fallback while disabling rule '"), Str(b.rule), Lit("'.")>>
             ELSE <<Lit("Define and measure a reference singleton baseline to serve as a safe fallback.")>>,
             <<Lit("Probe lower theta values than "), F2(b.theta),
               Lit(" to find a safer operating point.")>>,
             <<Lit("Audit the composed pipeline for unexpected interactions, data leakage, or misconfigured guards.")>> >>
        ELSE
          << <<Lit("Perform a finer theta sweep around "), F2(b.theta),
               Lit(" to confirm neutral behavior.")>>,
             IF has_baselines
             THEN <<Lit("Validate measurements for singleton '"), Str(best.name), Lit("' ("),
                    G3(best.value), Lit(") to ensure the comparison is trustworthy.")>>
             ELSE <<Lit("Measure at least one singleton baseline to anchor the neutrality judgment.")>>,
             <<Lit("Try orthogonal pattern combinations or alternative rules to search for stronger signals.")>> >>

\* a variant whose baseline statement needs more than one baseline
make_checklist_offbyone(b) ==
    LET count == Len(b.J_baselines)
    IN  << <<Lit("Confirm objective='"), Str(b.objective),
             Lit("' aligns with how J is interpreted.")>>,
           IF count > 1
           THEN <<Lit("Ensure "), Int0(count),
                  Lit(" singleton baselines use the same dataset and evaluation seed as the composition.")>>
           ELSE <<Lit("Record and compute at least one singleton baseline on the same dataset as the composition.")>>,
           <<Lit("Document how theta="), F2(b.theta), Lit(" for rule '"), Str(b.rule),
             Lit("' was chosen.")>>,
           IF b.patterns # <<>>
           THEN <<Lit("Ensure instrumentation exists for patterns: ")>> \o join(b.patterns)
                \o <<Lit(".")>>
           ELSE <<Lit("Record why no pattern diagnostics were supplied.")>> >>

\* make_checklist
make_checklist(b) ==
    LET count == Len(b.J_baselines)
    IN  << <<Lit("Confirm objective='"), Str(b.objective),
             Lit("' aligns with how J is interpreted.")>>,
           IF count > 0
           THEN <<Lit("Ensure "), Int0(count),
                  Lit(" singleton baselines use the same dataset and evaluation seed as the composition.")>>
           ELSE <<Lit("Record and compute at least one singleton baseline on the same dataset as the composition.")>>,
           <<Lit("Document how theta="), F2(b.theta), Lit(" for rule '"), Str(b.rule),
             Lit("' was chosen.")>>,
           IF b.patterns # <<>>
           THEN <<Lit("Ensure instrumentation exists for patterns: ")>> \o join(b.patterns)
                \o <<Lit(".")>>
           ELSE <<Lit("Record why no pattern diagnostics were supplied.")>> >>

(***************************************************************************)
(* gce.core.cc_surface.api, fallback backend                               *)
(***************************************************************************)
NoRet ==
    [status |-> "none", exc |-> "", value |-> NaN, divisor |-> None,
     label |-> "", verdict |-> NoVerdict, name |-> "", text |-> <<>>,
     list |-> <<>>, result |-> NoArray, path |-> "",
     pair |-> <<NaN, NaN>>,
     analysis |-> [theta |-> NaN, objective |-> "", best_singleton |-> None,
                   CC |-> NaN]]

\* compute_verdict: the Verdict returned, or the error raised
compute_verdict(b) ==
    LET CC == compute_cc(b.J_baselines, b.J_composed, b.objective)
        label == classify_cc(CC, INDEPENDENT_TOL)
        recommendation == make_recommendation(b, CC, label)
        next_tests == make_next_tests(b, CC, label)
        checklist == make_checklist(b)
    IN  IF Verdict_cc_rejected(CC)
        THEN [NoRet EXCEPT !.status = "raised", !.exc = "ValidationError",
                           !.value = CC, !.label = label]
        ELSE [NoRet EXCEPT !.status = "returned", !.value = CC, !.label = label,
                           !.verdict = Verdict(CC, label, recommendation,
                                               next_tests, checklist)]

(***************************************************************************)
(* gce.core.cc_surface.metrics                                             *)
(***************************************************************************)
\* what np.asarray(x, dtype=float) does with x inside _to_float_array: the
\* array, the TypeError _to_float_array raises for a TypeError or ValueError
\* of NumPy (str, dict), or the OverflowError of NumPy that it does not catch
\* (a Python int beyond the float range)
_to_float_array(x, name) ==
    CASE x.kind \in {"str", "dict"} ->
            [exc |-> "TypeError", name |-> name, shape |-> <<>>, data |-> <<>>]
      [] x.kind = "bigint" ->
            [exc |-> "OverflowError", name |-> name, shape |-> <<>>, data |-> <<>>]
      [] OTHER ->
            [exc |-> "", name |-> name, shape |-> x.shape, data |-> x.data]

\* np.isscalar: Python numbers and strings and NumPy scalars
isscalar(x) == x.kind \in {"float", "float64", "str", "bigint"}

\* np.broadcast_arrays on shapes of at most one axis
broadcastable(s1, s2) ==
    s1 = <<>> \/ s2 = <<>> \/ s1[1] = s2[1] \/ s1[1] = 1 \/ s2[1] = 1
broadcast_shape(s1, s2) ==
    IF s1 = <<>> THEN s2
    ELSE IF s2 = <<>> THEN s1
    ELSE IF s1[1] = 1 THEN s2 ELSE s1
size(shape) == IF shape = <<>> THEN 1 ELSE shape[1]
item(a, i) == IF a.shape = <<>> \/ a.shape[1] = 1 THEN a.data[1] ELSE a.data[i]

\* t - f on float64
np_subtract(t, f) ==
    CASE t.k = "nan" \/ f.k = "nan" -> NaN
      [] t.k = "fin" /\ f.k = "fin" -> FSub(t, f)
      [] t.k = "fin"                -> IF f.k = "inf" THEN NInf ELSE PInf
      [] f.k = "fin"                -> t
      [] t.k = f.k                  -> NaN
      [] OTHER                      -> t

\* np.clip(x, -1.0, 1.0)
np_clip(x) ==
    IF FLt(x, Fin(-1, 1)) THEN Fin(-1, 1)
    ELSE IF FGt(x, One) THEN One ELSE x

\* a variant that clips every item, finite or not
youden_item_clipall(t, f) == np_clip(np_subtract(t, f))

\* one item of j: np.where(np.isfinite(raw), np.clip(raw, -1.0, 1.0), raw)
youden_item(t, f) ==
    LET raw == np_subtract(t, f)
    IN  IF isfinite(raw) THEN np_clip(raw) ELSE raw

\* str(shape) of a shape of at most one axis
shape_text(shape) ==
    IF shape = <<>> THEN <<Lit("()")>>
    ELSE <<Lit("("), Int0(shape[1]), Lit(",)")>>

\* np.isscalar(tpr) and np.isscalar(fpr) and j.shape == ()
returns_float(tpr, fpr, shape) == isscalar(tpr) /\ isscalar(fpr) /\ shape = <<>>

\* youden_j: the float or array returned, or the error raised
youden_j(tpr, fpr) ==
    LET t == _to_float_array(tpr, "tpr")
        f == _to_float_array(fpr, "fpr")
        shape == broadcast_shape(t.shape, f.shape)
        j == [i \in 1..size(shape) |-> youden_item(item(t, i), item(f, i))]
    IN  IF t.exc # ""
        THEN [NoRet EXCEPT !.status = "raised", !.exc = t.exc, !.name = "tpr",
                 !.text = IF t.exc = "TypeError"
                          THEN <<Str("tpr"), Lit(" must be convertible to a float array of numbers; received object of type "), Str(tpr.kind), Lit(".")>>
                          ELSE <<>>]
        ELSE IF f.exc # ""
        THEN [NoRet EXCEPT !.status = "raised", !.exc = f.exc, !.name = "fpr",
                 !.text = IF f.exc = "TypeError"
                          THEN <<Str("fpr"), Lit(" must be convertible to a float array of numbers; received object of type "), Str(fpr.kind), Lit(".")>>
                          ELSE <<>>]
        ELSE IF ~broadcastable(t.shape, f.shape)
        THEN [NoRet EXCEPT !.status = "raised", !.exc = "ValueError",
                 !.text = <<Lit("tpr and fpr shapes are not broadcastable: ")>>
                          \o shape_text(t.shape) \o <<Lit(" vs ")>>
                          \o shape_text(f.shape)]
        ELSE [NoRet EXCEPT !.status = "returned",
                 !.result = [kind |-> IF returns_float(tpr, fpr, shape)
                                      THEN "float" ELSE "ndarray",
                             shape |-> shape, data |-> j]]

\* max(a, b) of two floats: b replaces a only when b > a
max2(a, b) == IF FGt(b, a) THEN b ELSE a

\* a variant that applies the policy whenever the denominator does not
\* exceed eps
compute_cc_max_notgt(j_observed, j_dfa, j_dp, eps, zero_denom_policy) ==
    LET denom == max2(j_dfa, j_dp)
        policy == py_lower(zero_denom_policy)
        quot == FDiv(j_observed, denom)
    IN  IF ~FGt(denom, eps)
        THEN CASE policy = "independent" ->
                    [NoRet EXCEPT !.status = "returned", !.value = One]
               [] policy = "nan" ->
                    [NoRet EXCEPT !.status = "returned", !.value = NaN]
               [] policy = "zero" ->
                    [NoRet EXCEPT !.status = "returned", !.value = Zero]
               [] OTHER ->
                    [NoRet EXCEPT !.status = "raised", !.exc = "ValueError",
                        !.text = <<Lit("Unsupported zero_denom_policy="),
                                   Str(zero_denom_policy),
                                   Lit(". Expected one of {'independent', 'nan', 'zero'}.")>>]
        ELSE IF quot = ZeroDiv
        THEN [NoRet EXCEPT !.status = "raised", !.exc = "ZeroDivisionError"]
        ELSE [NoRet EXCEPT !.status = "returned", !.value = quot]

\* compute_cc_max: the float returned, or the error raised
compute_cc_max(j_observed, j_dfa, j_dp, eps, zero_denom_policy) ==
    LET denom == max2(j_dfa, j_dp)
        policy == py_lower(zero_denom_policy)
        quot == FDiv(j_observed, denom)
    IN  IF FLe(denom, eps)
        THEN CASE policy = "independent" ->
                    [NoRet EXCEPT !.status = "returned", !.value = One]
               [] policy = "nan" ->
                    [NoRet EXCEPT !.status = "returned", !.value = NaN]
               [] policy = "zero" ->
                    [NoRet EXCEPT !.status = "returned", !.value = Zero]
               [] OTHER ->
                    [NoRet EXCEPT !.status = "raised", !.exc = "ValueError",
                        !.text = <<Lit("Unsupported zero_denom_policy="),
                                   Str(zero_denom_policy),
                                   Lit(". Expected one of {'independent', 'nan', 'zero'}.")>>]
        ELSE IF quot = ZeroDiv
        THEN [NoRet EXCEPT !.status = "raised", !.exc = "ZeroDivisionError"]
        ELSE [NoRet EXCEPT !.status = "returned", !.value = quot]

(***************************************************************************)
(* gce.exporters.one_pager                                                 *)
(***************************************************************************)
\* str(v) of a float inside an f-string
Repr(v) == [t |-> "str()", s |-> "", v |-> v]

\* payload.get(key, "?") of a normalised bundle: a RunBundle has every key,
\* a plain mapping the keys it was given
get_or_unknown(payload, key) ==
    IF key \notin payload.keys THEN Lit("?")
    ELSE CASE key = "rule"      -> Str(payload.fields.rule)
           [] key = "theta"     -> Repr(payload.fields.theta)
           [] key = "objective" -> Str(payload.fields.objective)

\* _list_section: the header, then "(none)" or the numbered items
_list_section(header, items) ==
    IF items = <<>> THEN <<<<Lit(header)>>, <<Lit("(none)")>>>>
    ELSE <<<<Lit(header)>>>>
         \o [idx \in 1..Len(items) |-> <<Int0(idx), Lit(". ")>> \o items[idx]]

\* "\n".join(lines)
RECURSIVE join_lines(_)
join_lines(lines) ==
    IF Len(lines) = 0 THEN <<>>
    ELSE IF Len(lines) = 1 THEN lines[1]
    ELSE lines[1] \o <<Lit("\n")>> \o join_lines(Tail(lines))

\* str.strip() of a text: white space at both ends goes
IsBlank(f) == f.t \in {"lit", "str"} /\ f.s \in {"", " ", "\n"}
RECURSIVE text_lstrip(_)
text_lstrip(text) ==
    IF text # <<>> /\ IsBlank(Head(text)) THEN text_lstrip(Tail(text)) ELSE text
RECURSIVE text_rstrip(_)
text_rstrip(text) ==
    IF text # <<>> /\ IsBlank(text[Len(text)])
    THEN text_rstrip(SubSeq(text, 1, Len(text) - 1)) ELSE text
text_strip(text) == text_rstrip(text_lstrip(text))

\* render_text_report(bundle, verdict) with the default title
render_text_report(payload, verdict) ==
    LET lines ==
            << <<Lit("Guardrail One-Pager")>>,
               <<Lit("===================")>>,
               <<Lit("Rule: "), get_or_unknown(payload, "rule"), Lit(" (theta="),
                 get_or_unknown(payload, "theta"), Lit(")")>>,
               <<Lit("Objective: "), get_or_unknown(payload, "objective")>>,
               <<Lit("Label: "), Str(verdict.label), Lit(" (CC="), F2(verdict.CC),
                 Lit(")")>>,
               <<>>,
               <<Lit("Recommendation")>>,
               verdict.recommendation,
               <<>> >>
            \o _list_section("Next Tests", verdict.next_tests)
            \o << <<>> >>
            \o _list_section("Checklist", verdict.checklist)
    IN  text_strip(join_lines(lines)) \o <<Lit("\n")>>

\* str.encode("utf-8") and bytes.decode("utf-8") of a text, piece by piece
encode_utf8(text) == [i \in 1..Len(text) |-> [enc |-> "utf-8", of |-> text[i]]]
decode_utf8(bytes) == [i \in 1..Len(bytes) |-> bytes[i].of]

\* a variant that opens the file for appending
write_text_append(file, data) ==
    [exists |-> TRUE, bytes |-> file.bytes \o encode_utf8(data)]

\* Path.write_text(data, encoding="utf-8"): the file is created or
\* truncated, then holds the encoded data
write_text(file, data) == [exists |-> TRUE, bytes |-> encode_utf8(data)]

(***************************************************************************)
(* gce.core.cc_surface.api: fh_bounds and analyze_composition              *)
(***************************************************************************)
\* abs(x) on floats
py_abs(x) ==
    CASE x.k = "nan"  -> NaN
      [] x.k = "fin"  -> Fin(Abs(x.n), x.d)
      [] OTHER        -> PInf

\* -x, a - b and a + b on floats
py_neg(x) ==
    CASE x.k = "nan"  -> NaN
      [] x.k = "inf"  -> NInf
      [] x.k = "ninf" -> PInf
      [] OTHER        -> Fin(-x.n, x.d)
py_sub(a, b) == np_subtract(a, b)
py_add(a, b) == np_subtract(a, py_neg(b))

\* min(a, b) of two floats: b when b < a, otherwise a
min2(a, b) == IF FLt(b, a) THEN b ELSE a

\* fh_bounds(theta, epsilon)
fh_bounds(theta, epsilon) ==
    LET theta_f == theta
        eps == py_abs(epsilon)
        lower == max2(Zero, py_sub(theta_f, eps))
        upper == min2(One, py_add(theta_f, eps))
    IN  <<lower, upper>>

\* min(values) and max(values) of a non-empty list of floats, as Python
\* folds them: the running result changes only when an item compares
\* below (above) it, so a NaN is kept or skipped by its position
RECURSIVE fold_min(_, _)
fold_min(acc, vals) ==
    IF vals = <<>> THEN acc ELSE fold_min(min2(acc, Head(vals)), Tail(vals))
RECURSIVE fold_max(_, _)
fold_max(acc, vals) ==
    IF vals = <<>> THEN acc ELSE fold_max(max2(acc, Head(vals)), Tail(vals))

\* payload.get(key, default) on the dumped bundle
get_J_baselines(payload) ==
    IF "J_baselines" \in payload.keys THEN payload.fields.J_baselines ELSE <<>>
get_J_composed(payload) ==
    IF "J_composed" \in payload.keys THEN payload.fields.J_composed ELSE Zero
get_objective_or_minimize(payload) ==
    IF "objective" \in payload.keys THEN payload.fields.objective ELSE "minimize"
get_theta_or_zero(payload) ==
    IF "theta" \in payload.keys THEN payload.fields.theta ELSE Zero

\* the best_singleton of analyze_composition
analyze_best_singleton(J_baselines, objective) ==
    IF J_baselines = <<>> THEN None
    ELSE LET baseline_values == values(J_baselines)
         IN  IF objective = "minimize"
             THEN fold_min(Head(baseline_values), Tail(baseline_values))
             ELSE fold_max(Head(baseline_values), Tail(baseline_values))

\* analyze_composition(bundle): the dictionary returned
analyze_composition(payload) ==
    LET J_baselines == get_J_baselines(payload)
        J_composed == get_J_composed(payload)
        objective == get_objective_or_minimize(payload)
    IN  [theta |-> get_theta_or_zero(payload),
         objective |-> objective,
         best_singleton |-> analyze_best_singleton(J_baselines, objective),
         CC |-> compute_cc(J_baselines, J_composed, objective)]

(***************************************************************************)
(* The inputs of the calls.                                                *)
(***************************************************************************)
JVals == {Fin(n, 1) : n \in -MaxJ..MaxJ}
FloatVals == JVals \cup {NaN, PInf, NInf}
Names == {"A", "B"}
Objectives == {"minimize", "maximize"}

\* the mappings name -> value with values in V, in every insertion order
Mappings(V) ==
    {<<>>}
    \cup {<<[name |-> x, value |-> v]>> : x \in Names, v \in V}
    \cup {<<[name |-> xy[1], value |-> vw[1]], [name |-> xy[2], value |-> vw[2]]>> :
            xy \in {p \in Names \X Names : p[1] # p[2]}, vw \in V \X V}

\* 0.94, the value the specification singles out below the band
CC_094 == Fin(47, 50)
CcVals == {Fin(n, 20) : n \in -MaxCcNum..MaxCcNum} \cup {CC_094, NaN, PInf, NInf}
TolVals == {INDEPENDENT_TOL, Zero, Fin(1, 10)}

\* a theta that float() cannot convert, such as "abc"
NotNumeric == [k |-> "str", n |-> 0, d |-> 1]
RawThetas == {Fin(3, 10), NaN, NotNumeric}
RawPatterns == {<<>>, <<"prior", "denoiser">>, <<"prior", " ">>}
RawRules == {"blend", " blend ", " "}
RawObjectives == {"minimize", "maximize", "MAXIMIZE"}

NoCall ==
    [op |-> "none", J_baselines |-> <<>>, J_comp |-> NaN, objective |-> "",
     cc |-> NaN, tol |-> NaN, raw |-> NoBundle, label |-> "",
     target |-> "", attr |-> "", value |-> NaN,
     j_observed |-> NaN, j_dfa |-> NaN, j_dp |-> NaN, eps |-> NaN,
     zero_denom_policy |-> "", tpr |-> NoArray, fpr |-> NoArray,
     payload |-> [keys |-> {}, fields |-> NoBundle], verdict |-> NoVerdict,
     path |-> "", theta |-> NaN, epsilon |-> NaN]
Labels == {"Constructive", "Independent", "Destructive"}
NoPrev == [cc |-> NaN, tol |-> NaN, label |-> ""]

\* Youden values, thresholds and policies handed to compute_cc_max
CcMaxVals == {Fin(-1, 1), Zero, Fin(1, 2), One, NaN, PInf}
\* eps: float = 1e-12, kept as 1/1000: a positive threshold below every
\* positive value of the model
EPS_DEFAULT == Fin(1, 1000)
EpsVals == {EPS_DEFAULT, Fin(1, 2), Fin(-1, 2)}
Policies == {"independent", "nan", "zero", "NAN", "bogus"}

\* arguments of youden_j: Python floats, NumPy scalars, 0-d arrays, lists
\* and arrays of up to MaxLen items, and values that are not numbers
MaxLen == 3
ScalarVals == {Fin(2, 1), Fin(9, 10), Fin(-1, 2), NaN, PInf, NInf}
ItemVals == {Fin(2, 1), Fin(-1, 2), PInf}
Seqs(V) == UNION {[1..n -> V] : n \in 1..MaxLen}
YoudenArgs ==
    {[kind |-> k, shape |-> <<>>, data |-> <<v>>] :
        k \in {"float", "float64", "ndarray"}, v \in ScalarVals}
    \cup {[kind |-> k, shape |-> <<Len(d)>>, data |-> d] :
        k \in {"list", "ndarray"}, d \in Seqs(ItemVals)}
    \cup {[kind |-> k, shape |-> <<>>, data |-> <<>>] : k \in {"str", "dict", "bigint"}}

(***************************************************************************)
(* The calls.                                                              *)
(***************************************************************************)
Threads == {1, 2}
MaxCalls == 2

\* a thread that is not inside compute_verdict, and the unbound local
\* variables of a call
NoThread == [pc |-> "idle", bundle |-> NoBundle, ret |-> NoRet, calls |-> 0]
NoLocals ==
    [CC |-> NaN, label |-> "", recommendation |-> <<>>, next_tests |-> <<>>,
     checklist |-> <<>>]

\* the paths the exporter writes to, and a path without a file
ExportPaths == {"bundle.txt", "report.txt"}
NoFile == [exists |-> FALSE, bytes |-> <<>>]

\* what a caller last did with the loaded package, and what came of it
NoLast ==
    [op |-> "none", place |-> "", status |-> "none", exc |-> "", pair |-> <<>>,
     engine |-> "", bundle |-> NoBundle, ret |-> NoRet]

\* the process before any module of the package is imported: whether
\* cc-framework is installed, whether cc.core.api is in sys.modules, the
\* module objects made from api.py, the one sys.modules holds, the one a
\* test holds in its variable api, the one whose functions the packages
\* export, the backend_info the cc_surface package exports, and the
\* selection of the first load
NoBackend ==
    [installed |-> "absent", cc_cached |-> FALSE, mods |-> <<>>, sysapi |-> 0,
     handle |-> 0, exported |-> 0, pkg_info |-> "unbound", first |-> <<>>,
     last |-> NoLast]

Init ==
    /\ pc = "idle"
    /\ call = NoCall
    /\ ret = NoRet
    /\ bundle = NoBundle
    /\ prev = NoPrev
    /\ thr = [t \in Threads |-> NoThread]
    /\ locals = [t \in Threads |-> NoLocals]
    /\ hist = {}
    /\ fs = [p \in ExportPaths |-> NoFile]
    /\ be = NoBackend

\* a caller evaluates compute_cc(J_baselines, J_comp, objective)
CallComputeCC ==
    /\ pc = "idle"
    /\ \E J \in Mappings(FloatVals), Jc \in FloatVals, obj \in Objectives :
         /\ call' = [NoCall EXCEPT !.op = "compute_cc", !.J_baselines = J,
                                   !.J_comp = Jc, !.objective = obj]
         /\ LET r == compute_cc_eval(J, Jc, obj)
            IN  ret' = [NoRet EXCEPT !.status = "returned", !.value = r.value,
                                     !.divisor = r.divisor]
    /\ pc' = "done"
    /\ UNCHANGED <<bundle, prev>>
    /\ UNCHANGED <<concVars, be, fs>>

\* a caller evaluates classify_cc(cc, tol)
CallClassifyCC ==
    /\ pc = "idle"
    /\ \E cc \in CcVals, tol \in TolVals :
         /\ call' = [NoCall EXCEPT !.op = "classify_cc", !.cc = cc, !.tol = tol]
         /\ ret' = [NoRet EXCEPT !.status = "returned",
                                 !.label = classify_cc(cc, tol)]
    /\ pc' = "done"
    /\ UNCHANGED <<bundle, prev>>
    /\ UNCHANGED <<concVars, be, fs>>

\* the caller of classify_cc keeps the label and classifies a second value
CallClassifyCCAgain ==
    /\ pc = "done"
    /\ call.op = "classify_cc"
    /\ prev = NoPrev
    /\ prev' = [cc |-> call.cc, tol |-> call.tol, label |-> ret.label]
    /\ \E cc \in CcVals, tol \in TolVals :
         /\ call' = [NoCall EXCEPT !.op = "classify_cc", !.cc = cc, !.tol = tol]
         /\ ret' = [NoRet EXCEPT !.status = "returned",
                                 !.label = classify_cc(cc, tol)]
    /\ pc' = "done"
    /\ UNCHANGED bundle
    /\ UNCHANGED <<concVars, be, fs>>

\* a caller constructs RunBundle(**raw)
NewRunBundle ==
    /\ pc = "idle"
    /\ \E th \in RawThetas, ps \in RawPatterns, ru \in RawRules,
          J \in Mappings(FloatVals), Jc \in FloatVals, obj \in RawObjectives :
         LET raw == [theta |-> th, patterns |-> ps, rule |-> ru, J_baselines |-> J,
                     J_composed |-> Jc, objective |-> obj]
         IN  /\ call' = [NoCall EXCEPT !.op = "RunBundle", !.raw = raw]
             /\ IF RunBundle_errors(raw) = {}
                THEN /\ bundle' = RunBundle(raw)
                     /\ ret' = [NoRet EXCEPT !.status = "returned"]
                     /\ pc' = "constructed"
                ELSE /\ bundle' = NoBundle
                     /\ ret' = [NoRet EXCEPT !.status = "raised",
                                             !.exc = "ValidationError"]
                     /\ pc' = "rejected"
    /\ UNCHANGED prev
    /\ UNCHANGED <<concVars, be, fs>>

\* the caller hands the validated bundle to compute_verdict
CallComputeVerdict ==
    /\ pc = "constructed"
    /\ call' = [NoCall EXCEPT !.op = "compute_verdict"]
    /\ ret' = compute_verdict(bundle)
    /\ pc' = "done"
    /\ UNCHANGED <<bundle, prev>>
    /\ UNCHANGED <<concVars, be, fs>>

\* a caller evaluates _best_baseline(bundle)
CallBestBaseline ==
    /\ pc = "constructed"
    /\ call' = [NoCall EXCEPT !.op = "_best_baseline"]
    /\ LET best == _best_baseline(bundle)
       IN  ret' = [NoRet EXCEPT !.status = "returned", !.name = best.name,
                                !.value = best.value]
    /\ pc' = "done"
    /\ UNCHANGED <<bundle, prev>>
    /\ UNCHANGED <<concVars, be, fs>>

\* a caller evaluates make_recommendation(bundle, CC, label)
CallMakeRecommendation ==
    /\ pc = "constructed"
    /\ \E label \in Labels :
         LET CC == compute_cc(bundle.J_baselines, bundle.J_composed, bundle.objective)
         IN  /\ call' = [NoCall EXCEPT !.op = "make_recommendation", !.cc = CC,
                                       !.label = label]
             /\ ret' = [NoRet EXCEPT !.status = "returned",
                                     !.text = make_recommendation(bundle, CC, label)]
    /\ pc' = "done"
    /\ UNCHANGED <<bundle, prev>>
    /\ UNCHANGED <<concVars, be, fs>>

\* a caller evaluates make_next_tests(bundle, CC, label)
CallMakeNextTests ==
    /\ pc = "constructed"
    /\ \E label \in Labels :
         LET CC == compute_cc(bundle.J_baselines, bundle.J_composed, bundle.objective)
         IN  /\ call' = [NoCall EXCEPT !.op = "make_next_tests", !.cc = CC,
                                       !.label = label]
             /\ ret' = [NoRet EXCEPT !.status = "returned",
                                     !.list = make_next_tests(bundle, CC, label)]
    /\ pc' = "done"
    /\ UNCHANGED <<bundle, prev>>
    /\ UNCHANGED <<concVars, be, fs>>

\* a caller evaluates make_checklist(bundle)
CallMakeChecklist ==
    /\ pc = "constructed"
    /\ call' = [NoCall EXCEPT !.op = "make_checklist"]
    /\ ret' = [NoRet EXCEPT !.status = "returned", !.list = make_checklist(bundle)]
    /\ pc' = "done"
    /\ UNCHANGED <<bundle, prev>>
    /\ UNCHANGED <<concVars, be, fs>>

\* a caller evaluates compute_cc_max(j_observed, j_dfa, j_dp, eps=...,
\* zero_denom_policy=...)
CallComputeCCMax ==
    /\ pc = "idle"
    /\ \E jo \in CcMaxVals, ja \in CcMaxVals, jp \in CcMaxVals, e \in EpsVals,
          pol \in Policies :
         /\ call' = [NoCall EXCEPT !.op = "compute_cc_max", !.j_observed = jo,
                                   !.j_dfa = ja, !.j_dp = jp, !.eps = e,
                                   !.zero_denom_policy = pol]
         /\ ret' = compute_cc_max(jo, ja, jp, e, pol)
    /\ pc' = "done"
    /\ UNCHANGED <<bundle, prev>>
    /\ UNCHANGED <<concVars, be, fs>>

\* validated bundles the threads and the helpers are handed: constructive
\* with patterns,
\* destructive without patterns, and without baselines
ConcBundles ==
    { RunBundle([theta |-> Fin(3, 10), patterns |-> <<"prior", "denoiser">>,
                 rule |-> "blend",
                 J_baselines |-> <<[name |-> "A", value |-> Fin(2, 1)]>>,
                 J_composed |-> Fin(1, 1), objective |-> "minimize"]),
      RunBundle([theta |-> Fin(3, 10), patterns |-> <<>>, rule |-> "blend",
                 J_baselines |-> <<[name |-> "A", value |-> Fin(2, 1)],
                                   [name |-> "B", value |-> Fin(1, 1)]>>,
                 J_composed |-> Fin(1, 1), objective |-> "maximize"]),
      RunBundle([theta |-> Fin(3, 10), patterns |-> <<>>, rule |-> "blend",
                 J_baselines |-> <<>>,
                 J_composed |-> Fin(1, 1), objective |-> "minimize"]) }

\* the arguments handed to fh_bounds
ThetaVals == {Fin(-1, 1), Zero, Fin(3, 10), One, Fin(2, 1), NaN, PInf, NInf}
EpsilonVals == {Fin(1, 20), Fin(-1, 20), Zero, Fin(1, 2), NaN, PInf}

\* a caller evaluates fh_bounds(theta, epsilon)
CallFhBounds ==
    /\ pc = "idle"
    /\ \E theta \in ThetaVals, epsilon \in EpsilonVals :
         /\ call' = [NoCall EXCEPT !.op = "fh_bounds", !.theta = theta,
                                   !.epsilon = epsilon]
         /\ ret' = [NoRet EXCEPT !.status = "returned",
                                 !.pair = fh_bounds(theta, epsilon)]
    /\ pc' = "done"
    /\ UNCHANGED <<bundle, prev>>
    /\ UNCHANGED <<concVars, be, fs>>

\* the bundles handed to analyze_composition: RunBundles, and plain
\* mappings with any baseline values, any objective string and some keys
\* left out
BundleKeys ==
    {"theta", "patterns", "rule", "J_baselines", "J_composed", "objective"}
AnalyzePayloads ==
    {[keys |-> BundleKeys, fields |-> b] : b \in ConcBundles}
    \cup {[keys |-> ks,
           fields |-> [NoBundle EXCEPT !.theta = Fin(3, 10), !.J_baselines = m,
                                      !.J_composed = jc, !.objective = o]] :
            ks \in {{"J_baselines", "J_composed", "objective", "theta"},
                    {"J_baselines", "J_composed"}},
            m \in Mappings(FloatVals), jc \in {Zero, One, Fin(2, 1)},
            o \in RawObjectives}

\* a caller evaluates analyze_composition(bundle)
CallAnalyzeComposition ==
    /\ pc = "idle"
    /\ \E payload \in AnalyzePayloads :
         /\ call' = [NoCall EXCEPT !.op = "analyze_composition",
                                   !.payload = payload]
         /\ ret' = [NoRet EXCEPT !.status = "returned",
                                 !.analysis = analyze_composition(payload)]
    /\ pc' = "done"
    /\ UNCHANGED <<bundle, prev>>
    /\ UNCHANGED <<concVars, be, fs>>

\* a caller evaluates youden_j(tpr, fpr)
CallYoudenJ ==
    /\ pc = "idle"
    /\ \E tpr \in YoudenArgs, fpr \in YoudenArgs :
         /\ call' = [NoCall EXCEPT !.op = "youden_j", !.tpr = tpr, !.fpr = fpr]
         /\ ret' = youden_j(tpr, fpr)
    /\ pc' = "done"
    /\ UNCHANGED <<bundle, prev>>
    /\ UNCHANGED <<concVars, be, fs>>

Next ==
    \/ CallFhBounds
    \/ CallAnalyzeComposition
    \/ CallYoudenJ
    \/ CallComputeCCMax
    \/ CallComputeCC
    \/ CallClassifyCC
    \/ CallClassifyCCAgain
    \/ NewRunBundle
    \/ CallComputeVerdict
    \/ CallBestBaseline
    \/ CallMakeRecommendation
    \/ CallMakeNextTests
    \/ CallMakeChecklist

Spec == Init /\ [][Next]_vars

\* attribute assignment on a model declared frozen=True: the field is kept
setattr_frozen(obj, attr, value) == obj

\* attribute assignment on a model declared with frozen=False and without
\* validate_assignment: the field takes the value, no validator runs
setattr(obj, attr, value) == [obj EXCEPT ![attr] = value]

AssignedVals == {NaN, PInf, Fin(-1, 1), Fin(1, 2)}

\* a caller assigns to a float field of the validated bundle
SetBundleAttr ==
    /\ pc = "constructed"
    /\ call.op = "RunBundle"
    /\ \E attr \in {"theta", "J_composed"}, v \in AssignedVals :
         /\ call' = [NoCall EXCEPT !.op = "setattr", !.target = "RunBundle",
                                   !.attr = attr, !.value = v]
         /\ bundle' = setattr(bundle, attr, v)
    /\ UNCHANGED <<pc, ret, prev>>
    /\ UNCHANGED <<concVars, be, fs>>

\* a caller assigns to the CC field of the Verdict compute_verdict returned
SetVerdictAttr ==
    /\ pc = "done"
    /\ call.op = "compute_verdict"
    /\ ret.status = "returned"
    /\ \E v \in AssignedVals :
         /\ call' = [NoCall EXCEPT !.op = "setattr", !.target = "Verdict",
                                   !.attr = "CC", !.value = v]
         /\ ret' = [ret EXCEPT !.verdict = setattr(@, "CC", v)]
    /\ pc' = "assigned"
    /\ UNCHANGED <<bundle, prev>>
    /\ UNCHANGED <<concVars, be, fs>>

NextAssign ==
    \/ Next
    \/ SetBundleAttr
    \/ SetVerdictAttr

SpecAssign == Init /\ [][NextAssign]_vars

(***************************************************************************)
(* compute_verdict statement by statement, called from several threads.    *)
(***************************************************************************)
\* a variant in which all calls use the local variables of one frame
frame_shared(t) == 1

\* the frame holding the local variables of the call that thread t runs:
\* every call has a frame of its own
frame(t) == t

\* a variant in which the list of an earlier call is bound again
new_list_kept(old) == <<>> \o old

\* tests: List[str] = [] binds a new empty list, whatever was there
new_list(old) == <<>>

\* return Verdict(CC=CC, label=label, ...): the Verdict, or the error of
\* its validation
return_Verdict(L) ==
    IF Verdict_cc_rejected(L.CC)
    THEN [NoRet EXCEPT !.status = "raised", !.exc = "ValidationError",
                       !.value = L.CC, !.label = L.label]
    ELSE [NoRet EXCEPT !.status = "returned", !.value = L.CC, !.label = L.label,
                       !.verdict = Verdict(L.CC, L.label, L.recommendation,
                                           L.next_tests, L.checklist)]

\* thread t calls compute_verdict(b)
Begin(t) ==
    /\ thr[t].pc = "idle"
    /\ thr[t].calls < MaxCalls
    /\ \E b \in ConcBundles :
         thr' = [thr EXCEPT ![t] = [pc |-> "cc", bundle |-> b, ret |-> NoRet,
                                    calls |-> thr[t].calls + 1]]
    /\ UNCHANGED <<locals, hist>>
    /\ UNCHANGED <<callVars, be, fs>>

\* CC = compute_cc(bundle.J_baselines, bundle.J_composed, bundle.objective)
StepCC(t) ==
    /\ thr[t].pc = "cc"
    /\ LET b == thr[t].bundle
       IN  locals' = [locals EXCEPT ![frame(t)].CC =
                         compute_cc(b.J_baselines, b.J_composed, b.objective)]
    /\ thr' = [thr EXCEPT ![t].pc = "label"]
    /\ UNCHANGED hist
    /\ UNCHANGED <<callVars, be, fs>>

\* label = classify_cc(CC)
StepLabel(t) ==
    /\ thr[t].pc = "label"
    /\ locals' = [locals EXCEPT ![frame(t)].label =
                      classify_cc(locals[frame(t)].CC, INDEPENDENT_TOL)]
    /\ thr' = [thr EXCEPT ![t].pc = "rec"]
    /\ UNCHANGED hist
    /\ UNCHANGED <<callVars, be, fs>>

\* recommendation = make_recommendation(bundle, CC, label)
StepRecommendation(t) ==
    /\ thr[t].pc = "rec"
    /\ LET L == locals[frame(t)]
       IN  locals' = [locals EXCEPT ![frame(t)].recommendation =
                         make_recommendation(thr[t].bundle, L.CC, L.label)]
    /\ thr' = [thr EXCEPT ![t].pc = "tests"]
    /\ UNCHANGED hist
    /\ UNCHANGED <<callVars, be, fs>>

\* make_next_tests enters: tests = []
StepTestsInit(t) ==
    /\ thr[t].pc = "tests"
    /\ locals' = [locals EXCEPT ![frame(t)].next_tests =
                      new_list(locals[frame(t)].next_tests)]
    /\ thr' = [thr EXCEPT ![t].pc = "fill"]
    /\ UNCHANGED hist
    /\ UNCHANGED <<callVars, be, fs>>

\* make_next_tests appends its entries and returns the list
StepTestsFill(t) ==
    /\ thr[t].pc = "fill"
    /\ LET L == locals[frame(t)]
       IN  locals' = [locals EXCEPT ![frame(t)].next_tests =
                         L.next_tests \o make_next_tests(thr[t].bundle, L.CC, L.label)]
    /\ thr' = [thr EXCEPT ![t].pc = "checklist"]
    /\ UNCHANGED hist
    /\ UNCHANGED <<callVars, be, fs>>

\* checklist = make_checklist(bundle)
StepChecklist(t) ==
    /\ thr[t].pc = "checklist"
    /\ locals' = [locals EXCEPT ![frame(t)].checklist = make_checklist(thr[t].bundle)]
    /\ thr' = [thr EXCEPT ![t].pc = "verdict"]
    /\ UNCHANGED hist
    /\ UNCHANGED <<callVars, be, fs>>

\* return Verdict(...); the caller notes the bundle and the outcome
StepVerdict(t) ==
    /\ thr[t].pc = "verdict"
    /\ LET r == return_Verdict(locals[frame(t)])
       IN  /\ thr' = [thr EXCEPT ![t].pc = "done", ![t].ret = r]
           /\ hist' = hist \cup {[bundle |-> thr[t].bundle, ret |-> r]}
    /\ UNCHANGED locals
    /\ UNCHANGED <<callVars, be, fs>>

\* the caller drops the result and is ready for its next call
Finish(t) ==
    /\ thr[t].pc = "done"
    /\ thr' = [thr EXCEPT ![t].pc = "idle", ![t].bundle = NoBundle,
                          ![t].ret = NoRet]
    /\ UNCHANGED <<locals, hist>>
    /\ UNCHANGED <<callVars, be, fs>>

ThreadStep(t) ==
    \/ Begin(t)
    \/ StepCC(t)
    \/ StepLabel(t)
    \/ StepRecommendation(t)
    \/ StepTestsInit(t)
    \/ StepTestsFill(t)
    \/ StepChecklist(t)
    \/ StepVerdict(t)
    \/ Finish(t)

NextConc == \E t \in Threads : ThreadStep(t)

SpecConc == Init /\ [][NextConc]_vars

(***************************************************************************)
(* Backend selection at import, the exports, and the reloads of the tests. *)
(***************************************************************************)
MaxLoads == 2

\* cc-framework absent, installed with all the names the package imports,
\* or installed with RunBundle, Verdict and compute_verdict only
Installs == {"absent", "full", "core_only"}
ExportPlaces == {"gce", "gce.core.cc_surface", "gce.core.cc_surface.api"}

\* a variant in which a module already in sys.modules cannot be imported
import_cc_core_once(e) == e.installed # "absent" /\ ~e.cc_cached

\* from cc.core.api import RunBundle, Verdict, compute_verdict succeeds when
\* the module is in sys.modules or can be found and executed
import_cc_core(e) == e.cc_cached \/ e.installed # "absent"

\* from cc.core.api import analyze_composition, fh_bounds, backend_info,
\* format_verdict
import_cc_extras(e) == import_cc_core(e) /\ e.installed = "full"

\* the namespace that executing api.py leaves: lines 30-31, then the
\* try/except/else
exec_api(e) ==
    IF import_cc_core(e)
    THEN [_BACKEND |-> "cc-framework", _BACKEND_PROVIDER |-> "cc.core.api",
          engine |-> "cc"]
    ELSE [_BACKEND |-> "fallback", _BACKEND_PROVIDER |-> "gce.core.cc_surface",
          engine |-> "local"]

\* api.backend_info() of a module object, as the pair (backend, provider)
backend_info(ns) == <<ns._BACKEND, ns._BACKEND_PROVIDER>>

\* what backend_info of cc.core.api may return: that code is not part of
\* the repository
ExternalInfo == {<<"cc-framework", "cc.core.api">>, <<"external", "external">>}

InitBackend ==
    /\ pc = "idle"
    /\ call = NoCall
    /\ ret = NoRet
    /\ bundle = NoBundle
    /\ prev = NoPrev
    /\ thr = [t \in Threads |-> NoThread]
    /\ locals = [t \in Threads |-> NoLocals]
    /\ hist = {}
    /\ fs = [p \in ExportPaths |-> NoFile]
    /\ \E i \in Installs : be = [NoBackend EXCEPT !.installed = i]

\* the first import of gce or of one of its submodules: api.py is executed,
\* then the rest of gce/core/cc_surface/__init__.py, then gce/__init__.py
ImportPackage ==
    /\ be.mods = <<>>
    /\ LET ns == exec_api(be)
           e1 == [be EXCEPT !.cc_cached = import_cc_core(be)]
       IN  be' = [e1 EXCEPT !.mods = <<ns>>, !.sysapi = 1, !.handle = 1,
                            !.exported = 1,
                            !.pkg_info = IF import_cc_extras(e1) THEN "cc" ELSE "stub",
                            !.first = backend_info(ns),
                            !.last = [NoLast EXCEPT !.op = "import"]]
    /\ UNCHANGED <<callVars, concVars, fs>>

\* tests.utils.reset_backend_modules
ResetBackendModules ==
    /\ be.mods # <<>>
    /\ be' = [be EXCEPT !.sysapi = 0, !.cc_cached = FALSE,
                        !.last = [NoLast EXCEPT !.op = "reset"]]
    /\ UNCHANGED <<callVars, concVars, fs>>

\* import gce.core.cc_surface.api as api: the module in sys.modules, or a
\* new module object made by executing api.py
ImportApi ==
    /\ be.mods # <<>>
    /\ IF be.sysapi # 0
       THEN be' = [be EXCEPT !.handle = be.sysapi,
                             !.last = [NoLast EXCEPT !.op = "import"]]
       ELSE /\ Len(be.mods) < MaxLoads
            /\ be' = [be EXCEPT !.mods = Append(be.mods, exec_api(be)),
                                !.cc_cached = import_cc_core(be),
                                !.sysapi = Len(be.mods) + 1,
                                !.handle = Len(be.mods) + 1,
                                !.last = [NoLast EXCEPT !.op = "import"]]
    /\ UNCHANGED <<callVars, concVars, fs>>

\* importlib.reload(api): api.py is executed again in the namespace of the
\* module object; a module that is not in sys.modules is refused
ReloadApi ==
    /\ be.handle # 0
    /\ IF be.sysapi = be.handle
       THEN be' = [be EXCEPT !.mods[be.handle] = exec_api(be),
                             !.cc_cached = import_cc_core(be),
                             !.last = [NoLast EXCEPT !.op = "reload"]]
       ELSE be' = [be EXCEPT !.last = [NoLast EXCEPT !.op = "reload",
                                                    !.status = "raised",
                                                    !.exc = "ImportError"]]
    /\ UNCHANGED <<callVars, concVars, fs>>

\* the module object whose functions a place exports
ModuleAt(place) ==
    IF place = "gce.core.cc_surface.api" THEN be.handle ELSE be.exported

\* a caller takes backend_info from one of the places and calls it
CallBackendInfo ==
    /\ be.mods # <<>>
    /\ \E place \in ExportPlaces :
         LET engine == be.mods[ModuleAt(place)].engine
             called == [NoLast EXCEPT !.op = "backend_info", !.place = place,
                                      !.engine = engine]
         IN  IF place = "gce.core.cc_surface"
             THEN IF be.pkg_info = "stub"
                  THEN be' = [be EXCEPT !.last =
                                 [called EXCEPT !.status = "raised",
                                                !.exc = "NotImplementedError"]]
                  ELSE \E pair \in ExternalInfo :
                          be' = [be EXCEPT !.last =
                                    [called EXCEPT !.status = "returned",
                                                   !.pair = pair]]
             ELSE be' = [be EXCEPT !.last =
                            [called EXCEPT !.status = "returned",
                                           !.pair = backend_info(be.mods[ModuleAt(place)])]]
    /\ UNCHANGED <<callVars, concVars, fs>>

\* a caller takes compute_verdict from one of the places and calls it
CallComputeVerdictAt ==
    /\ be.mods # <<>>
    /\ \E place \in ExportPlaces, b \in ConcBundles :
         LET engine == be.mods[ModuleAt(place)].engine
             called == [NoLast EXCEPT !.op = "compute_verdict", !.place = place,
                                      !.engine = engine, !.bundle = b]
         IN  IF engine = "local"
             THEN be' = [be EXCEPT !.last =
                            [called EXCEPT !.status = compute_verdict(b).status,
                                           !.ret = compute_verdict(b)]]
             ELSE be' = [be EXCEPT !.last = [called EXCEPT !.status = "delegated"]]
    /\ UNCHANGED <<callVars, concVars, fs>>

NextBackend ==
    \/ ImportPackage
    \/ ResetBackendModules
    \/ ImportApi
    \/ ReloadApi
    \/ CallBackendInfo
    \/ CallComputeVerdictAt

SpecBackend == InitBackend /\ [][NextBackend]_vars

(***************************************************************************)
(* Exports of the one-pager to files.                                      *)
(***************************************************************************)
\* bundles handed to the exporter: RunBundles, and an empty plain mapping
ExportBundles ==
    {[keys |-> {"theta", "patterns", "rule", "J_baselines", "J_composed",
                "objective"}, fields |-> b] : b \in ConcBundles}
    \cup {[keys |-> {}, fields |-> NoBundle]}

\* verdicts handed to the exporter: those compute_verdict returns for the
\* bundles, and a Verdict of CC and label only
ExportVerdicts ==
    {compute_verdict(b).verdict :
        b \in {c \in ConcBundles : compute_verdict(c).status = "returned"}}
    \cup {Verdict(One, "Independent", <<>>, <<>>, <<>>)}

\* what another program left at a path earlier
EarlierFile == [exists |-> TRUE, bytes |-> encode_utf8(<<Lit("earlier content\n")>>)]

InitExport ==
    /\ pc = "idle"
    /\ call = NoCall
    /\ ret = NoRet
    /\ bundle = NoBundle
    /\ prev = NoPrev
    /\ thr = [t \in Threads |-> NoThread]
    /\ locals = [t \in Threads |-> NoLocals]
    /\ hist = {}
    /\ be = NoBackend
    /\ fs \in [ExportPaths -> {NoFile, EarlierFile}]

\* a caller evaluates export_one_pager(bundle, verdict, output_path)
ExportOnePager ==
    /\ \E payload \in ExportBundles, verdict \in ExportVerdicts, path \in ExportPaths :
         LET report == render_text_report(payload, verdict)
         IN  /\ call' = [NoCall EXCEPT !.op = "export_one_pager",
                                       !.payload = payload, !.verdict = verdict,
                                       !.path = path]
             /\ fs' = [fs EXCEPT ![path] = write_text(fs[path], report)]
             /\ ret' = [NoRet EXCEPT !.status = "returned", !.path = path]
    /\ UNCHANGED <<pc, bundle, prev, concVars, be>>

NextExport == ExportOnePager

SpecExport == InitExport /\ [][NextExport]_vars

(***************************************************************************)
(* Properties.                                                             *)
(***************************************************************************)
\* the finite values of a mapping, and the least and greatest of a set of
\* finite values
FiniteValues(J) == {J[i].value : i \in {j \in 1..Len(J) : J[j].value.k = "fin"}}
LeastOf(S) == CHOOSE v \in S : \A w \in S : v.n * w.d <= w.n * v.d
GreatestOf(S) == CHOOSE v \in S : \A w \in S : v.n * w.d >= w.n * v.d
AllFinite(J) == \A i \in 1..Len(J) : J[i].value.k = "fin"
IsZero(v) == v.k = "fin" /\ v.n = 0
IsPositive(v) == v.k = "inf" \/ (v.k = "fin" /\ v.n > 0)
IsNegative(v) == v.k = "ninf" \/ (v.k = "fin" /\ v.n < 0)
Ratio(a, b) == Fin(a.n * b.d, a.d * b.n)

\* C1: compute_verdict returns a Verdict and never raises for every
\* validated RunBundle; with empty J_baselines the Verdict has CC = NaN and
\* label Independent, and in the zero-denominator cases (best baseline 0
\* under minimize with J_composed # 0, J_composed <= 0 under maximize with a
\* positive best baseline) it has CC = +infinity.
C1_ComputeVerdictNeverRaises ==
    call.op = "compute_verdict" =>
        /\ ret.status = "returned"
        /\ bundle.J_baselines = <<>> =>
              ret.verdict.CC = NaN /\ ret.verdict.label = "Independent"
        /\ ( /\ bundle.J_baselines # <<>>
             /\ bundle.objective = "minimize"
             /\ IsZero(LeastOf(FiniteValues(bundle.J_baselines)))
             /\ ~IsZero(bundle.J_composed) ) => ret.verdict.CC = PInf
        /\ ( /\ bundle.J_baselines # <<>>
             /\ bundle.objective = "maximize"
             /\ IsPositive(GreatestOf(FiniteValues(bundle.J_baselines)))
             /\ ~IsPositive(bundle.J_composed) ) => ret.verdict.CC = PInf

\* C2: for finite J_composed and finite baselines the CC that compute_cc
\* returns is a non-negative real number, NaN or +infinity, never a
\* negative number and never -infinity.
C2_CCNeverNegative ==
    ( /\ call.op = "compute_cc"
      /\ AllFinite(call.J_baselines)
      /\ call.J_comp.k = "fin" ) =>
        \/ ret.value.k = "fin" /\ ret.value.n >= 0
        \/ ret.value = NaN
        \/ ret.value = PInf

\* C3: for non-empty finite J_baselines and finite J_composed, outside the
\* zero and non-positive denominator cases, compute_cc returns
\* J_composed / min(values) under minimize and max(values) / J_composed
\* under maximize.
C3_RatioAgainstBest ==
    ( /\ call.op = "compute_cc"
      /\ call.J_baselines # <<>>
      /\ AllFinite(call.J_baselines)
      /\ call.J_comp.k = "fin" ) =>
        LET vals == FiniteValues(call.J_baselines)
        IN  /\ (call.objective = "minimize" /\ ~IsZero(LeastOf(vals))) =>
                  ret.value = Ratio(call.J_comp, LeastOf(vals))
            /\ (call.objective = "maximize" /\ IsPositive(call.J_comp)) =>
                  ret.value = Ratio(GreatestOf(vals), call.J_comp)

C3_Witness ==
    /\ call.op = "compute_cc"
    /\ call.objective = "minimize"
    /\ Len(call.J_baselines) = 2
    /\ call.J_baselines[1].value = Fin(2, 1)
    /\ call.J_baselines[2].value = Fin(-2, 1)
    /\ call.J_comp = One
    /\ ret.value = Fin(-1, 2)

C5_MinimizeZeroBest ==
    ( /\ call.op = "compute_cc"
      /\ call.objective = "minimize"
      /\ FiniteValues(call.J_baselines) # {}
      /\ IsZero(LeastOf(FiniteValues(call.J_baselines))) ) =>
        ret.value = IF IsZero(call.J_comp) THEN One ELSE PInf

C5_Witness ==
    /\ call.op = "compute_cc"
    /\ call.objective = "minimize"
    /\ FiniteValues(call.J_baselines) # {}
    /\ IsZero(LeastOf(FiniteValues(call.J_baselines)))
    /\ IsZero(call.J_comp)
    /\ ret.value = One

\* C6: under maximize, whenever J_composed <= 0, compute_cc returns 1.0 if
\* the greatest finite baseline is <= 0 and +infinity if it is > 0, and no
\* call under maximize divides by a non-positive J_composed.
C6_MaximizeNonPositiveComposed ==
    ( /\ call.op = "compute_cc"
      /\ call.objective = "maximize"
      /\ FiniteValues(call.J_baselines) # {} ) =>
        /\ (IsZero(call.J_comp) \/ IsNegative(call.J_comp)) =>
              /\ ret.value = IF IsPositive(GreatestOf(FiniteValues(call.J_baselines)))
                             THEN PInf ELSE One
              /\ ret.divisor = None
        /\ ret.divisor # None => IsPositive(ret.divisor) \/ ret.divisor = NaN

C6_Witness ==
    /\ call.op = "compute_cc"
    /\ call.objective = "maximize"
    /\ IsZero(call.J_comp)
    /\ FiniteValues(call.J_baselines) # {}
    /\ IsPositive(GreatestOf(FiniteValues(call.J_baselines)))
    /\ ret.value = PInf

\* C7: for finite J_composed and J_baselines with at least one finite value,
\* under either objective, compute_cc < 1 implies that the composed score is
\* strictly better than the best singleton (lower under minimize, higher
\* under maximize) and compute_cc > 1 implies that it is strictly worse.
C7_OrientedRatio ==
    ( /\ call.op = "compute_cc"
      /\ call.J_comp.k = "fin"
      /\ FiniteValues(call.J_baselines) # {} ) =>
        LET vals == FiniteValues(call.J_baselines)
            best == IF call.objective = "minimize" THEN LeastOf(vals)
                    ELSE GreatestOf(vals)
            Jc == call.J_comp
            lower == Jc.n * best.d < best.n * Jc.d
            higher == Jc.n * best.d > best.n * Jc.d
            better == IF call.objective = "minimize" THEN lower ELSE higher
            worse == IF call.objective = "minimize" THEN higher ELSE lower
        IN  /\ FLt(ret.value, One) => better
            /\ FGt(ret.value, One) => worse

\* the label the decision rule gives a finite cc = n/d for the band of
\* half-width tol = tn/td around 1
BandLabel(cc, tol) ==
    IF cc.n * tol.d < (tol.d - tol.n) * cc.d THEN "Constructive"
    ELSE IF cc.n * tol.d > (tol.d + tol.n) * cc.d THEN "Destructive"
    ELSE "Independent"

\* C8: classify_cc(cc, tol) returns Independent when cc is NaN or infinite;
\* otherwise Constructive when cc < 1 - tol, Destructive when cc > 1 + tol
\* and Independent for every cc in the closed band [1 - tol, 1 + tol], both
\* boundary values included; a call that passes no tol (compute_verdict's)
\* classifies with tol = 0.05.
C8_ClassifyRule ==
    /\ call.op = "classify_cc" =>
          /\ call.cc.k # "fin" => ret.label = "Independent"
          /\ call.cc.k = "fin" =>
                /\ ret.label = BandLabel(call.cc, call.tol)
                /\ ( /\ call.cc.n * call.tol.d >= (call.tol.d - call.tol.n) * call.cc.d
                     /\ call.cc.n * call.tol.d <= (call.tol.d + call.tol.n) * call.cc.d )
                      => ret.label = "Independent"
    /\ call.op = "compute_verdict" =>
          ret.label = IF ret.value.k = "fin" THEN BandLabel(ret.value, Fin(5, 100))
                      ELSE "Independent"

C8_Witness ==
    /\ call.op = "classify_cc"
    /\ call.tol = Fin(1, 10)
    /\ call.cc = Fin(9, 10)
    /\ ret.label = "Independent"

\* C9 as stated: with the default tolerance classify_cc(0.94) is
\* Independent, classify_cc(0.5) is Constructive, classify_cc(1.0) is
\* Independent and classify_cc(1.5) is Destructive.
C9_Stated ==
    (call.op = "classify_cc" /\ call.tol = INDEPENDENT_TOL) =>
        /\ call.cc = Fin(94, 100) => ret.label = "Independent"
        /\ call.cc = Fin(1, 2) => ret.label = "Constructive"
        /\ call.cc = One => ret.label = "Independent"
        /\ call.cc = Fin(3, 2) => ret.label = "Destructive"

\* C9 as amended: with the default tolerance classify_cc(0.94) is
\* Constructive, 0.94 lying below the boundary 0.95 of the band;
\* classify_cc(0.5) is Constructive, classify_cc(1.0) is Independent and
\* classify_cc(1.5) is Destructive.
C9_Amended ==
    (call.op = "classify_cc" /\ call.tol = INDEPENDENT_TOL) =>
        /\ call.cc = Fin(94, 100) => ret.label = "Constructive"
        /\ call.cc = Fin(1, 2) => ret.label = "Constructive"
        /\ call.cc = One => ret.label = "Independent"
        /\ call.cc = Fin(3, 2) => ret.label = "Destructive"

C9_Witness ==
    /\ call.op = "classify_cc"
    /\ call.tol = INDEPENDENT_TOL
    /\ call.cc = CC_094
    /\ ret.label = "Constructive"

\* the severity order Constructive < Independent < Destructive
Severity(label) ==
    CASE label = "Constructive" -> 0
      [] label = "Independent"  -> 1
      [] label = "Destructive"  -> 2

\* C10 as stated: for a fixed tol and any two comparable cc values with
\* cc1 <= cc2, the label of cc1 is never more severe than the label of cc2.
C10_Stated ==
    ( /\ call.op = "classify_cc"
      /\ prev # NoPrev
      /\ prev.tol = call.tol
      /\ FLe(prev.cc, call.cc) ) =>
        Severity(prev.label) <= Severity(ret.label)

\* C10 as amended: for a fixed tol and any two finite cc values with
\* cc1 <= cc2, the label of cc1 is never more severe than the label of cc2
\* (the infinite values are Independent on either side of the finite ones).
C10_Amended ==
    ( /\ call.op = "classify_cc"
      /\ prev # NoPrev
      /\ prev.tol = call.tol
      /\ prev.cc.k = "fin" /\ call.cc.k = "fin"
      /\ FLe(prev.cc, call.cc) ) =>
        Severity(prev.label) <= Severity(ret.label)

C10_Witness ==
    /\ call.op = "classify_cc"
    /\ prev # NoPrev
    /\ prev.tol = call.tol
    /\ prev.cc.k = "fin" /\ call.cc.k = "fin"
    /\ FLt(prev.cc, call.cc)
    /\ prev.label = "Constructive"
    /\ ret.label = "Destructive"

\* the entries of a mapping whose value is extremal under the objective
ExtremalValue(J, objective) ==
    IF objective = "maximize" THEN GreatestOf(FiniteValues(J))
    ELSE LeastOf(FiniteValues(J))
FirstExtremal(J, objective) ==
    CHOOSE i \in 1..Len(J) :
        /\ J[i].value = ExtremalValue(J, objective)
        /\ \A j \in 1..(i - 1) : J[j].value # ExtremalValue(J, objective)
Has(text, fragment) == \E i \in 1..Len(text) : text[i] = fragment
PositionOf(text, fragment) == CHOOSE i \in 1..Len(text) : text[i] = fragment
\* text, from position k on, lists the items separated by ", " and ends "."
ListsFrom(text, k, items) ==
    /\ Len(text) = k + 2 * Len(items)
    /\ \A j \in 1..Len(items) : text[k + 2 * j - 1] = Str(items[j])
    /\ \A j \in 1..(Len(items) - 1) : text[k + 2 * j] = Lit(", ")
    /\ text[Len(text)] = Lit(".")

\* C13: _best_baseline returns ("<none>", NaN) when J_baselines is empty;
\* otherwise it returns the entry whose value is minimal under minimize or
\* maximal under maximize, and among several entries of that value the one
\* first in insertion order.
C13_BestBaseline ==
    call.op = "_best_baseline" =>
        IF bundle.J_baselines = <<>>
        THEN ret.name = "<none>" /\ ret.value = NaN
        ELSE LET J == bundle.J_baselines
                 i == FirstExtremal(J, bundle.objective)
             IN  /\ ret.name = J[i].name
                 /\ ret.value = J[i].value
                 /\ ret.value = ExtremalValue(J, bundle.objective)

C13_Witness ==
    /\ call.op = "_best_baseline"
    /\ Len(bundle.J_baselines) = 2
    /\ bundle.J_baselines[1].name = "B"
    /\ bundle.J_baselines[1].value = bundle.J_baselines[2].value
    /\ ret.name = "B"

\* C14: the recommendation of every Verdict that compute_verdict returns
\* begins with the tone phrase of the Verdict's own label (Constructive:
\* "Lean into the synergy.", Independent: "Hold the line - the blend is
\* neutral.", Destructive: "Dial back the composition until diagnostics
\* improve."), and with no other text.
C14_ToneOfOwnLabel ==
    (call.op = "compute_verdict" /\ ret.status = "returned") =>
        LET r == ret.verdict.recommendation
            l == ret.verdict.label
        IN  /\ l \in Labels
            /\ Len(r) > 0
            /\ r[1].t = "lit"
            /\ l = "Constructive" => r[1].s = "Lean into the synergy."
            /\ l = "Independent" => r[1].s = "Hold the line - the blend is neutral."
            /\ l = "Destructive" =>
                  r[1].s = "Dial back the composition until diagnostics improve."

C14_Witness ==
    /\ call.op = "compute_verdict"
    /\ ret.status = "returned"
    /\ ret.verdict.label = "Destructive"
    /\ ret.verdict.recommendation[1] =
          Lit("Dial back the composition until diagnostics improve.")

\* C15: make_recommendation uses the clause "vs singleton '<best_name>'=
\* <best_value>" iff J_baselines is non-empty and the clause "with no
\* singleton baselines" otherwise, and it appends " Patterns in play: ",
\* all patterns in input order joined by ", ", and "." iff patterns is
\* non-empty.
C15_OptionalClauses ==
    call.op = "make_recommendation" =>
        LET r == ret.text
            J == bundle.J_baselines
            vs == Lit(" vs singleton '")
            nobase == Lit(" with no singleton baselines; treat CC=")
            play == Lit(" Patterns in play: ")
        IN  /\ Has(r, vs) <=> J # <<>>
            /\ Has(r, nobase) <=> J = <<>>
            /\ J # <<>> =>
                  LET k == PositionOf(r, vs)
                      i == FirstExtremal(J, bundle.objective)
                  IN  /\ r[k + 1] = Str(J[i].name)
                      /\ r[k + 2] = Lit("'=")
                      /\ r[k + 3] = G3(J[i].value)
            /\ Has(r, play) <=> bundle.patterns # <<>>
            /\ bundle.patterns # <<>> =>
                  ListsFrom(r, PositionOf(r, play), bundle.patterns)
            /\ bundle.patterns = <<>> =>
                  r[Len(r)] = Lit(").")

C15_Witness ==
    /\ call.op = "make_recommendation"
    /\ bundle.J_baselines = <<>>
    /\ bundle.patterns = <<"prior", "denoiser">>
    /\ Has(ret.text, Lit(" with no singleton baselines; treat CC="))
    /\ Has(ret.text, Lit(" Patterns in play: "))

\* the literal text an entry of make_next_tests opens with, by label and
\* priority
NextTestOpening(label, k, hasBaselines, hasPatterns) ==
    CASE label = "Constructive" /\ k = 1 -> "Expand the theta sweep around "
      [] label = "Constructive" /\ k = 2 ->
            IF hasPatterns THEN "Run leave-one-pattern-out ablations for "
            ELSE "Introduce diagnostic ablations for each component before locking the policy."
      [] label = "Constructive" /\ k = 3 ->
            IF hasBaselines THEN "Re-evaluate singleton '"
            ELSE "Establish at least one singleton baseline on the same dataset to quantify the lift."
      [] label = "Destructive" /\ k = 1 ->
            IF hasBaselines THEN "Re-run singleton '"
            ELSE "Define and measure a reference singleton baseline to serve as a safe fallback."
      [] label = "Destructive" /\ k = 2 -> "Probe lower theta values than "
      [] label = "Destructive" /\ k = 3 ->
            "Audit the composed pipeline for unexpected interactions, data leakage, or misconfigured guards."
      [] label = "Independent" /\ k = 1 -> "Perform a finer theta sweep around "
      [] label = "Independent" /\ k = 2 ->
            IF hasBaselines THEN "Validate measurements for singleton '"
            ELSE "Measure at least one singleton baseline to anchor the neutrality judgment."
      [] label = "Independent" /\ k = 3 ->
            "Try orthogonal pattern combinations or alternative rules to search for stronger signals."

\* C16: make_next_tests returns exactly three pairwise distinct entries for
\* every label and every combination of baselines and patterns present or
\* absent, in the priority order of the label.
C16_ThreeNextTests ==
    call.op = "make_next_tests" =>
        LET L == ret.list
        IN  /\ Len(L) = 3
            /\ \A i, j \in 1..3 : i # j => L[i] # L[j]
            /\ \A k \in 1..3 :
                  L[k][1] = Lit(NextTestOpening(call.label, k,
                                                bundle.J_baselines # <<>>,
                                                bundle.patterns # <<>>))

C16_Witness ==
    /\ call.op = "make_next_tests"
    /\ call.label = "Destructive"
    /\ bundle.J_baselines = <<>>
    /\ Len(ret.list) = 3
    /\ ret.list[2][1] = Lit("Probe lower theta values than ")

\* C17: make_checklist returns exactly four entries in a fixed order: the
\* objective confirmation; the statement with the number of baselines iff
\* len(J_baselines) > 0, else the statement to record at least one baseline;
\* the theta documentation for the rule; the instrumentation statement that
\* names all patterns iff patterns is non-empty, else "Record why no pattern
\* diagnostics were supplied."
C17_FourChecklistEntries ==
    call.op = "make_checklist" =>
        LET L == ret.list
            count == Len(bundle.J_baselines)
            counted == Lit("Ensure ")
            record == <<Lit("Record and compute at least one singleton baseline on the same dataset as the composition.")>>
            instr == Lit("Ensure instrumentation exists for patterns: ")
            why == <<Lit("Record why no pattern diagnostics were supplied.")>>
        IN  /\ Len(L) = 4
            /\ L[1][1] = Lit("Confirm objective='") /\ L[1][2] = Str(bundle.objective)
            /\ (L[2][1] = counted) <=> (count > 0)
            /\ count > 0 => L[2][2] = Int0(count)
            /\ (L[2] = record) <=> (count = 0)
            /\ L[3][1] = Lit("Document how theta=") /\ L[3][2] = F2(bundle.theta)
            /\ Has(L[3], Str(bundle.rule))
            /\ (L[4][1] = instr) <=> (bundle.patterns # <<>>)
            /\ bundle.patterns # <<>> => ListsFrom(L[4], 1, bundle.patterns)
            /\ (L[4] = why) <=> (bundle.patterns = <<>>)

C17_Witness ==
    /\ call.op = "make_checklist"
    /\ Len(bundle.J_baselines) = 1
    /\ bundle.patterns = <<>>
    /\ Len(ret.list) = 4
    /\ ret.list[2][2] = Int0(1)
    /\ ret.list[4] = <<Lit("Record why no pattern diagnostics were supplied.")>>

\* C20 as stated: RunBundle and Verdict are immutable value objects; no
\* operation, attribute assignment by a caller included, changes any field
\* of a constructed RunBundle or Verdict.
C20_Stated ==
    [][/\ (bundle # NoBundle) => (bundle' = bundle)
       /\ (ret.verdict # NoVerdict) => (ret'.verdict = ret.verdict)]_vars

\* C20 amended: no function of the engine changes any field of a RunBundle
\* or Verdict, but both models are declared frozen=False, so an attribute
\* assignment by a caller succeeds, gives the field the assigned value without
\* validation, and leaves every other field as it was.
C20_Amended ==
    [][/\ (call'.op # "setattr" /\ bundle # NoBundle) => (bundle' = bundle)
       /\ (call'.op # "setattr" /\ ret.verdict # NoVerdict) =>
             (ret'.verdict = ret.verdict)
       /\ (call'.op = "setattr" /\ call'.target = "RunBundle") =>
             /\ bundle'[call'.attr] = call'.value
             /\ \A f \in (DOMAIN bundle) \ {call'.attr} : bundle'[f] = bundle[f]
             /\ ret' = ret
       /\ (call'.op = "setattr" /\ call'.target = "Verdict") =>
             /\ ret'.verdict[call'.attr] = call'.value
             /\ \A f \in (DOMAIN ret.verdict) \ {call'.attr} :
                   ret'.verdict[f] = ret.verdict[f]
             /\ bundle' = bundle]_vars

C20_Witness ==
    /\ call.op = "compute_verdict"
    /\ ret.status = "raised"
    /\ bundle # NoBundle
    /\ bundle.J_baselines # <<>>
    /\ bundle.J_composed = NaN

\* C11: compute_verdict is deterministic and idempotent: calls on RunBundles
\* of identical field values yield identical outcomes (the same Verdict field
\* for field, or the same error), whatever calls were made before.
C11_SameBundleSameVerdict ==
    \A h1, h2 \in hist : (h1.bundle = h2.bundle) => (h1.ret = h2.ret)

C11_Witness ==
    /\ thr[1].pc = "done" /\ thr[1].calls = 2 /\ thr[1].ret.status = "returned"
    /\ thr[2].pc = "done" /\ thr[2].calls = 1
    /\ thr[1].bundle = thr[2].bundle
    /\ Cardinality(hist) = 2

\* C12: concurrent calls of compute_verdict need no coordination: in every
\* interleaving of their statements each call ends with the outcome that
\* compute_verdict gives for its bundle when it runs alone.
C12_InterleavingIndependent ==
    \A t \in Threads :
        thr[t].pc = "done" => thr[t].ret = compute_verdict(thr[t].bundle)

C12_Witness ==
    /\ thr[1].pc = "done" /\ thr[1].ret.status = "returned"
    /\ thr[1].ret.verdict.label = "Constructive"
    /\ thr[2].pc = "fill"
    /\ locals[2].label = "Destructive"
    /\ thr[1].calls = 1 /\ thr[2].calls = 1

\* C18: backend_info taken from any of the places that export it (gce,
\* gce.core.cc_surface, gce.core.cc_surface.api) returns the two strings that
\* name the engine executing compute_verdict: ("fallback",
\* "gce.core.cc_surface") exactly when the local engine runs, ("cc-framework",
\* "cc.core.api") exactly when it delegates.
C18_BackendInfoAtEveryPlace ==
    be.last.op = "backend_info" =>
        /\ be.last.status = "returned"
        /\ (be.last.engine = "local") <=>
              (be.last.pair = <<"fallback", "gce.core.cc_surface">>)
        /\ (be.last.engine = "cc") <=>
              (be.last.pair = <<"cc-framework", "cc.core.api">>)

OtherFieldsValid(raw) ==
    /\ isfinite(raw.theta)
    /\ py_strip(raw.rule) # ""
    /\ \A i \in 1..Len(raw.J_baselines) : isfinite(raw.J_baselines[i].value)
    /\ isfinite(raw.J_composed)

\* C21: RunBundle construction normalises the objective case-insensitively:
\* an input that equals "minimize" or "maximize" after trimming and
\* lower-casing (such as "MAXIMIZE") is accepted and stored in lower case,
\* and every other objective is rejected with a validation error.
C21_ObjectiveNormalised ==
    (call.op = "RunBundle" /\ OtherFieldsValid(call.raw)) =>
        LET norm == py_lower(py_strip(call.raw.objective))
        IN  IF norm \in Objectives
            THEN ret.status = "returned" /\ bundle.objective = norm
            ELSE ret.status = "raised" /\ ret.exc = "ValidationError"

\* C22: every RunBundle that construction accepts has a finite theta, a
\* finite J_composed, only finite J_baselines values (possibly none), a
\* non-empty trimmed rule and only non-empty trimmed patterns; a raw field
\* that is not numeric or not finite is rejected with a validation error, so
\* compute_verdict is only ever called on such a bundle.
C22_AcceptedBundleIsClean ==
    /\ (call.op = "RunBundle" /\ ret.status = "returned") =>
          /\ isfinite(bundle.theta)
          /\ isfinite(bundle.J_composed)
          /\ \A i \in 1..Len(bundle.J_baselines) : isfinite(bundle.J_baselines[i].value)
          /\ bundle.rule # "" /\ py_strip(bundle.rule) = bundle.rule
          /\ \A i \in 1..Len(bundle.patterns) :
                bundle.patterns[i] # "" /\ py_strip(bundle.patterns[i]) = bundle.patterns[i]
    /\ (/\ call.op = "RunBundle"
        /\ \/ ~isfinite(call.raw.theta)
           \/ ~isfinite(call.raw.J_composed)
           \/ \E i \in 1..Len(call.raw.J_baselines) :
                 ~isfinite(call.raw.J_baselines[i].value)) =>
          /\ ret.status = "raised" /\ ret.exc = "ValidationError"
          /\ pc = "rejected" /\ bundle = NoBundle
    /\ call.op = "compute_verdict" =>
          /\ isfinite(bundle.theta) /\ isfinite(bundle.J_composed)
          /\ \A i \in 1..Len(bundle.J_baselines) : isfinite(bundle.J_baselines[i].value)

C22_Witness ==
    /\ call.op = "RunBundle"
    /\ ret.status = "returned"
    /\ call.raw.patterns = <<"prior", " ">>
    /\ bundle.patterns = <<"prior">>
    /\ call.raw.rule = " blend "
    /\ bundle.rule = "blend"
    /\ bundle.J_baselines = <<>>

\* the greater of j_dfa and j_dp when neither is NaN
Greater(a, b) == IF FGe(a, b) THEN a ELSE b

C24_BadPolicyAlwaysRaises ==
    (/\ call.op = "compute_cc_max"
     /\ call.zero_denom_policy \notin {"independent", "nan", "zero", "NAN"}) =>
        /\ ret.status = "raised"
        /\ ret.exc = "ValueError"
        /\ \E i \in 1..Len(ret.text) : ret.text[i] = Str(call.zero_denom_policy)

\* tpr - fpr as real arithmetic extended to NaN and the infinities
Difference(t, f) ==
    IF t = NaN \/ f = NaN THEN NaN
    ELSE IF isfinite(t) /\ isfinite(f) THEN FSub(t, f)
    ELSE IF t = f THEN NaN
    ELSE IF t = PInf \/ f = NInf THEN PInf
    ELSE NInf

\* C25: each element of youden_j(tpr, fpr) equals tpr - fpr clipped to
\* [-1, 1] when that difference is finite and the unclipped difference (NaN,
\* +infinity or -infinity) when it is not; every finite result lies in
\* [-1, 1].
C25_ClippedWhenFinite ==
    (call.op = "youden_j" /\ ret.status = "returned") =>
        LET r == ret.result
        IN  /\ Len(r.data) = size(r.shape)
            /\ \A i \in 1..Len(r.data) :
                  LET d == Difference(item(call.tpr, i), item(call.fpr, i))
                  IN  /\ isfinite(d) =>
                            r.data[i] = (IF FGt(d, One) THEN One
                                         ELSE IF FLt(d, Fin(-1, 1)) THEN Fin(-1, 1)
                                         ELSE d)
                      /\ ~isfinite(d) => r.data[i] = d
                      /\ isfinite(r.data[i]) =>
                            (FLe(Fin(-1, 1), r.data[i]) /\ FLe(r.data[i], One))

C25_Witness ==
    /\ call.op = "youden_j"
    /\ ret.status = "returned"
    /\ call.tpr.data = <<Fin(2, 1), PInf, Fin(-1, 2)>>
    /\ call.fpr.data = <<Fin(-1, 2)>>
    /\ call.fpr.kind = "list"
    /\ ret.result.data = <<One, PInf, Zero>>

\* C26: youden_j returns a plain Python float exactly when both arguments are
\* pure Python scalars; if either is anything else (list, ndarray, or a NumPy
\* scalar such as np.float64) it returns a numpy.ndarray whose shape is the
\* broadcast shape of the two inputs.
C26_FloatOnlyForPythonScalars ==
    (call.op = "youden_j" /\ ret.status = "returned") =>
        /\ (ret.result.kind = "float") <=>
              (call.tpr.kind = "float" /\ call.fpr.kind = "float")
        /\ ret.result.kind # "float" =>
              /\ ret.result.kind = "ndarray"
              /\ ret.result.shape =
                    (IF call.tpr.shape = <<>> THEN call.fpr.shape
                     ELSE IF call.fpr.shape = <<>> THEN call.tpr.shape
                     ELSE IF call.tpr.shape[1] >= call.fpr.shape[1]
                          THEN call.tpr.shape ELSE call.fpr.shape)

\* an argument that cannot be converted to a float array
Unconvertible(x) == x.kind \in {"str", "dict", "bigint"}

\* C27: youden_j signals bad input through two error kinds only: a TypeError
\* naming the argument ("tpr" or "fpr") that cannot be converted to a float
\* array, and a ValueError stating both shapes when the arrays are not
\* broadcastable; tpr is checked before fpr and types before shapes.
C27_TwoErrorKinds ==
    call.op = "youden_j" =>
        IF Unconvertible(call.tpr)
        THEN /\ ret.status = "raised" /\ ret.exc = "TypeError"
             /\ ret.text # <<>> /\ ret.text[1] = Str("tpr")
        ELSE IF Unconvertible(call.fpr)
        THEN /\ ret.status = "raised" /\ ret.exc = "TypeError"
             /\ ret.text # <<>> /\ ret.text[1] = Str("fpr")
        ELSE IF /\ call.tpr.shape # <<>> /\ call.fpr.shape # <<>>
                /\ call.tpr.shape[1] # call.fpr.shape[1]
                /\ call.tpr.shape[1] # 1 /\ call.fpr.shape[1] # 1
        THEN /\ ret.status = "raised" /\ ret.exc = "ValueError"
             /\ \E a, b \in 1..Len(ret.text) :
                   /\ a < b
                   /\ ret.text[a] = Int0(call.tpr.shape[1])
                   /\ ret.text[b] = Int0(call.fpr.shape[1])
        ELSE ret.status = "returned"

\* C28: export_one_pager(bundle, verdict, path) returns the given path and
\* leaves at that path a file whose content is exactly the text that
\* render_text_report(bundle, verdict) returns, whatever the file held
\* before; the report contains the section headers "Next Tests" and
\* "Checklist" and ends with a newline; no other path is written.
C28_FileHoldsReport ==
    [][call'.op = "export_one_pager" =>
          LET report == render_text_report(call'.payload, call'.verdict)
              content == decode_utf8(fs'[call'.path].bytes)
          IN  /\ ret'.status = "returned" /\ ret'.path = call'.path
              /\ fs'[call'.path].exists
              /\ content = report
              /\ \E i, j \in 1..Len(content) :
                    /\ i < j
                    /\ content[i] = Lit("Next Tests")
                    /\ content[j] = Lit("Checklist")
              /\ content[Len(content)] = Lit("\n")
              /\ \A p \in ExportPaths \ {call'.path} : fs'[p] = fs[p]]_vars

C28_Witness ==
    /\ call.op = "export_one_pager"
    /\ call.path = "bundle.txt"
    /\ call.verdict.label = "Constructive"
    /\ fs["bundle.txt"].exists
    /\ fs["report.txt"] = EarlierFile
    /\ Len(fs["bundle.txt"].bytes) > 20
    /\ decode_utf8(fs["bundle.txt"].bytes)[1] = Lit("Guardrail One-Pager")

\* C29: for every theta and epsilon, fh_bounds returns (lower, upper) with
\* 0 <= lower <= upper <= 1, where lower = max(0, theta - |epsilon|) and
\* upper = min(1, theta + |epsilon|).
C29_BoundsOrdered ==
    (call.op = "fh_bounds" /\ ret.status = "returned") =>
        LET lower == ret.pair[1]
            upper == ret.pair[2]
            eps == py_abs(call.epsilon)
        IN  /\ FLe(Zero, lower) /\ FLe(lower, upper) /\ FLe(upper, One)
            /\ lower = max2(Zero, py_sub(call.theta, eps))
            /\ upper = min2(One, py_add(call.theta, eps))

\* C30: for every payload analyze_composition accepts, best_singleton is
\* the reference compute_cc used: it is None exactly when no baseline value
\* is usable (and CC is then NaN), and otherwise CC is
\* J_composed / best_singleton under "minimize" and
\* best_singleton / J_composed under any other objective, outside the
\* zero-denominator cases.
C30_BestSingletonIsReference ==
    (call.op = "analyze_composition" /\ ret.status = "returned") =>
        LET a == ret.analysis
            J_baselines == get_J_baselines(call.payload)
            J_c == get_J_composed(call.payload)
            usable == \E i \in 1..Len(J_baselines) : isfinite(J_baselines[i].value)
        IN  /\ (a.best_singleton = None) <=> ~usable
            /\ ~usable => a.CC = NaN
            /\ (usable /\ a.objective = "minimize" /\ ~FEq(a.best_singleton, Zero))
                   => a.CC = FDiv(J_c, a.best_singleton)
            /\ (usable /\ a.objective # "minimize" /\ FGt(J_c, Zero))
                   => a.CC = FDiv(a.best_singleton, J_c)

====
